---- MODULE Spec2Model ----
(***************************************************************************)
(* A model of ffprobe3.probe (src/ffprobe3/ffprobe3.py): the validation of *)
(* the call-time options, the spawn of the ffprobe child, the timed        *)
(* communicate with its kill-and-drain fallback, the JSON decode, the exit *)
(* status check and the construction of the FFprobe result.                *)
(***************************************************************************)
EXTENDS Integers, Sequences, FiniteSets, TLC

(* ------------------------------------------------------------------ *)
(* Bounds of the model                                                 *)
(* ------------------------------------------------------------------ *)

\* How many probe calls one behaviour makes, one after the other.
MaxCalls == 1

(* ------------------------------------------------------------------ *)
(* Python values                                                       *)
(* ------------------------------------------------------------------ *)

\* An optional value: <<>> is None, <<x>> is x.
None == <<>>
Some(x) == <<x>>

\* A Python value as passed for communicate_timeout: its type, its value
\* in tenths (numbers only) and whether a float is finite, nan or inf.
PyNone == [ty |-> "NoneType", n |-> 0, fl |-> "finite"]
PyStr == [ty |-> "str", n |-> 0, fl |-> "finite"]
PyInt(n) == [ty |-> "int", n |-> n * 10, fl |-> "finite"]
PyFloatTenths(n) == [ty |-> "float", n |-> n, fl |-> "finite"]
PyNaN == [ty |-> "float", n |-> 0, fl |-> "nan"]
PyInf == [ty |-> "float", n |-> 0, fl |-> "inf"]

\* The timeouts a caller passes: None, a string, 0, -0.5, 10, nan, inf.
Timeouts == {PyNone, PyStr, PyInt(0), PyFloatTenths(-5), PyInt(10), PyNaN, PyInf}

\* isinstance(v, (int, float))
IsIntOrFloat(v) == v.ty \in {"int", "float"}

\* Mutation of LeZero: v < 0.0, which lets a timeout of zero through.
LtZero(v) == v.fl = "finite" /\ v.n < 0

\* v <= 0.0 as Python compares it: every comparison with nan is False,
\* and +inf is greater than every number.
LeZero(v) == v.fl = "finite" /\ v.n <= 0

(* ------------------------------------------------------------------ *)
(* Strings, paths and the file system                                  *)
(* ------------------------------------------------------------------ *)

Lower == {"a", "b", "c", "d", "e", "f", "g", "h", "i", "j", "k", "l", "m",
          "n", "o", "p", "q", "r", "s", "t", "u", "v", "w", "x", "y", "z"}
Digit == {"0", "1", "2", "3", "4", "5", "6", "7", "8", "9"}

\* The targets a caller passes, and the characters of each.
MediaPaths == {"media.mp4", "http://h", "HTTP://h", "a-1://h", "file:/h", "1a://h"}

CharsOf(s) ==
    CASE s = "media.mp4" -> <<"m", "e", "d", "i", "a", ".", "m", "p", "4">>
      [] s = "http://h"  -> <<"h", "t", "t", "p", ":", "/", "/", "h">>
      [] s = "HTTP://h"  -> <<"H", "T", "T", "P", ":", "/", "/", "h">>
      [] s = "a-1://h"   -> <<"a", "-", "1", ":", "/", "/", "h">>
      [] s = "file:/h"   -> <<"f", "i", "l", "e", ":", "/", "h">>
      [] s = "1a://h"    -> <<"1", "a", ":", "/", "/", "h">>
      [] OTHER           -> <<>>

\* The executable a caller names instead of "ffprobe".
OverridePath == "/opt/ffprobe"

\* The regular files that may exist when probe is called.
FileSystems == {{}, {"media.mp4"}, {"media.mp4", OverridePath}}

\* The module-level list _SPLIT_COMMAND_LINE as the module defines it.
BaseCommandLine ==
    <<"ffprobe", "-v", "error", "-print_format", "json",
      "-show_chapters", "-show_format", "-show_streams">>

\* Mutation of UriSchemeMatches: the pattern compiled with re.IGNORECASE.
UriSchemeMatchesIgnoreCase(path) ==
    LET c == CharsOf(path)
        Upper == {"H", "T", "P"}
    IN  \E n \in 1..Len(c) :
            /\ c[1] \in Lower \cup Upper
            /\ \A i \in 2..n : c[i] \in Lower \cup Upper \cup Digit \cup {"-"}
            /\ n + 3 <= Len(c)
            /\ c[n + 1] = ":" /\ c[n + 2] = "/" /\ c[n + 3] = "/"

\* _URI_SCHEME.match(path) is not None, for "^[a-z][a-z0-9-]*://"
UriSchemeMatches(path) ==
    LET c == CharsOf(path) IN
    \E n \in 1..Len(c) :
        /\ c[1] \in Lower
        /\ \A i \in 2..n : c[i] \in Lower \cup Digit \cup {"-"}
        /\ n + 3 <= Len(c)
        /\ c[n + 1] = ":" /\ c[n + 2] = "/" /\ c[n + 3] = "/"

(* ------------------------------------------------------------------ *)
(* JSON: the text the child prints, as lexemes, and json.loads          *)
(* ------------------------------------------------------------------ *)

\* A decoded JSON value: t is its Python type, s a str's or number's
\* text, items a list's elements or a dict's <<key, value>> entries in
\* insertion order.
JNull == [t |-> "null", s |-> "", items |-> <<>>]
JNum(s) == [t |-> "num", s |-> s, items |-> <<>>]
JStr(s) == [t |-> "str", s |-> s, items |-> <<>>]
JList(items) == [t |-> "list", s |-> "", items |-> items]
JDict(items) == [t |-> "dict", s |-> "", items |-> items]

\* A Python tuple, a value no JSON text decodes to.
PyTuple(items) == [t |-> "tuple", s |-> "", items |-> items]

\* The lexemes that are JSON string literals and JSON numbers.
StrToks == {"format", "streams", "chapters", "codec_type", "video"}
NumToks == {"0"}

\* dict[k] = v: a repeated key keeps its place and takes the last value.
DictSet(items, k, v) ==
    IF \E i \in 1..Len(items) : items[i][1] = k
    THEN [i \in 1..Len(items) |-> IF items[i][1] = k THEN <<k, v>> ELSE items[i]]
    ELSE Append(items, <<k, v>>)

\* k in d
DictHas(d, k) == \E i \in 1..Len(d.items) : d.items[i][1] = k

\* d.get(k, default)
DictGet(d, k, default) ==
    IF DictHas(d, k)
    THEN d.items[CHOOSE i \in 1..Len(d.items) : d.items[i][1] = k][2]
    ELSE default

ParseFail == [ok |-> FALSE, val |-> JNull, next |-> 0]
ParseOk(v, next) == [ok |-> TRUE, val |-> v, next |-> next]

RECURSIVE ParseValue(_, _), ParseMembers(_, _, _), ParseElements(_, _, _)

\* One JSON value starting at lexeme i.
ParseValue(toks, i) ==
    IF i > Len(toks) THEN ParseFail
    ELSE CASE toks[i] = "{" ->
                IF i + 1 <= Len(toks) /\ toks[i + 1] = "}"
                THEN ParseOk(JDict(<<>>), i + 2)
                ELSE ParseMembers(toks, i + 1, <<>>)
           [] toks[i] = "[" ->
                IF i + 1 <= Len(toks) /\ toks[i + 1] = "]"
                THEN ParseOk(JList(<<>>), i + 2)
                ELSE ParseElements(toks, i + 1, <<>>)
           [] toks[i] = "null" -> ParseOk(JNull, i + 1)
           [] toks[i] \in NumToks -> ParseOk(JNum(toks[i]), i + 1)
           [] toks[i] \in StrToks -> ParseOk(JStr(toks[i]), i + 1)
           [] OTHER -> ParseFail

\* "key": value pairs up to the closing brace.
ParseMembers(toks, i, acc) ==
    IF i + 1 > Len(toks) \/ toks[i] \notin StrToks \/ toks[i + 1] # ":"
    THEN ParseFail
    ELSE LET r == ParseValue(toks, i + 2) IN
         IF ~r.ok \/ r.next > Len(toks) THEN ParseFail
         ELSE LET acc2 == DictSet(acc, toks[i], r.val) IN
              CASE toks[r.next] = "}" -> ParseOk(JDict(acc2), r.next + 1)
                [] toks[r.next] = "," -> ParseMembers(toks, r.next + 1, acc2)
                [] OTHER -> ParseFail

\* Values up to the closing bracket.
ParseElements(toks, i, acc) ==
    LET r == ParseValue(toks, i) IN
    IF ~r.ok \/ r.next > Len(toks) THEN ParseFail
    ELSE CASE toks[r.next] = "]" -> ParseOk(JList(Append(acc, r.val)), r.next + 1)
           [] toks[r.next] = "," -> ParseElements(toks, r.next + 1, Append(acc, r.val))
           [] OTHER -> ParseFail

\* Mutation of JsonLoads: the first value is decoded and what follows it
\* is ignored (raw_decode in place of loads).
JsonLoadsIgnoresExtraData(text) == ParseValue(text, 1)

\* json.loads(text): one value and nothing after it, or JSONDecodeError.
JsonLoads(text) ==
    LET r == ParseValue(text, 1) IN
    IF r.ok /\ r.next = Len(text) + 1 THEN r ELSE ParseFail

\* What the child may print on stdout, in full; it may stop at any prefix.
Docs ==
    { <<"{", "}">>,
      <<"{", "format", ":", "{", "}", "}">>,
      <<"{", "streams", ":", "0", "}">>,
      <<"[", "]">>,
      <<"{", "}", "}">>,
      <<"Usage">> }

\* What the child may print on stderr, line by line.
ErrTexts == { <<>>, <<"No such file or directory">> }

\* The exit codes a child chooses; a killed child reports -SIGKILL.
ExitCodes == {0, 1}
SIGKILL == 9

(* ------------------------------------------------------------------ *)
(* Numbers, float() and int(), and the getters of ParsedJson            *)
(* ------------------------------------------------------------------ *)

\* A Python number: num/den * b^exp, of type ty ("int" or "float"), or a
\* float that is nan or inf (fl).  exp is above 0 only for values beyond
\* the machine integers of the checker, which are written n * b^exp with
\* den = 1 and n >= 1.
PyNum(ty, num, den, b, exp) ==
    [ty |-> ty, num |-> num, den |-> den, b |-> b, exp |-> exp, fl |-> "finite"]
IntNum(n) == PyNum("int", n, 1, 1, 0)
FloatNum(num, den) == PyNum("float", num, den, 1, 0)
FloatNaN == [PyNum("float", 0, 1, 1, 0) EXCEPT !.fl = "nan"]
FloatInf == [PyNum("float", 1, 1, 1, 0) EXCEPT !.fl = "inf"]

\* The largest e with 1000^e within the range of a float (about 1.8e308).
FloatMaxExp == 102

\* The digits of 10^309, an int beyond that range.
HugeText ==
    "1000000000000000000000000000000000000000000000000000000000000000000000000000000000000000000000000000000000000000000000000000000000000000000000000000000000000000000000000000000000000000000000000000000000000000000000000000000000000000000000000000000000000000000000000000000000000000000000000000000000000000000000"

\* An int too large to convert to float.
BeyondFloat(x) == x.fl = "finite" /\ x.b = 1000 /\ x.exp > FloatMaxExp

\* The number a text spells: lit is "int" for an integer literal, "float"
\* for any other text float() accepts, "none" for a text it rejects.
Lit(lit, v) == [lit |-> lit, v |-> v]
Literal(s) ==
    CASE s = "0"        -> Lit("int", IntNum(0))
      [] s = "2"        -> Lit("int", IntNum(2))
      [] s = "5"        -> Lit("int", IntNum(5))
      [] s = "480"      -> Lit("int", IntNum(480))
      [] s = "640"      -> Lit("int", IntNum(640))
      [] s = "999"      -> Lit("int", IntNum(999))
      [] s = "1000"     -> Lit("int", IntNum(1000))
      [] s = "1023"     -> Lit("int", IntNum(1023))
      [] s = "1024"     -> Lit("int", IntNum(1024))
      [] s = "128000"   -> Lit("int", IntNum(128000))
      [] s = "999949"   -> Lit("int", IntNum(999949))
      [] s = "999950"   -> Lit("int", IntNum(999950))
      [] s = "999999"   -> Lit("int", IntNum(999999))
      [] s = "5243244"  -> Lit("int", IntNum(5243244))
      [] s = "1000000000000000000000"    -> Lit("int", PyNum("int", 1, 1, 1000, 7))
      [] s = "999000000000000000000000"  -> Lit("int", PyNum("int", 999, 1, 1000, 7))
      [] s = "1000000000000000000000000" -> Lit("int", PyNum("int", 1, 1, 1000, 8))
      [] s = "1000000000000000000000000000" -> Lit("int", PyNum("int", 1000, 1, 1000, 8))
      [] s = "1180591620717411303424"    -> Lit("int", PyNum("int", 1, 1, 1024, 7))
      [] s = "1208925819614629174706176" -> Lit("int", PyNum("int", 1, 1, 1024, 8))
      [] s = "1237940039285380274899124224" -> Lit("int", PyNum("int", 1024, 1, 1024, 8))
      [] s = HugeText
                        -> Lit("int", PyNum("int", 1, 1, 1000, FloatMaxExp + 1))
      [] s = "-7.9"     -> Lit("float", FloatNum(-79, 10))
      [] s = "1.5"      -> Lit("float", FloatNum(15, 10))
      [] s = "7.9"      -> Lit("float", FloatNum(79, 10))
      [] s = "9.999"    -> Lit("float", FloatNum(9999, 1000))
      [] s = "30.96"    -> Lit("float", FloatNum(3096, 100))
      [] s = "30.998"   -> Lit("float", FloatNum(30998, 1000))
      [] s = "59.5"     -> Lit("float", FloatNum(595, 10))
      [] s = "3605.5"   -> Lit("float", FloatNum(36055, 10))
      [] s = "3854.80"  -> Lit("float", FloatNum(385480, 100))
      [] s = "360000.25" -> Lit("float", FloatNum(36000025, 100))
      [] s = "nan"      -> Lit("float", FloatNaN)
      [] s = "inf"      -> Lit("float", FloatInf)
      [] OTHER          -> Lit("none", IntNum(0))

\* The outcome of evaluating an expression: the class of the exception
\* it raised ("" if none) and its value.
Value(v) == [exc |-> "", val |-> v]
Raised(cls) == [exc |-> cls, val |-> JNull]

\* ParsedJson.__getitem__(key): self.parsed_json[key]
GetItem(d, key) ==
    IF DictHas(d, key) THEN Value(DictGet(d, key, JNull)) ELSE Raised("KeyError")

\* float(x) of a number: an int beyond the range of float overflows.
FloatOfNumber(x) ==
    IF BeyondFloat(x) THEN Raised("OverflowError")
    ELSE Value([x EXCEPT !.ty = "float"])

\* float(v) of a decoded JSON value
FloatOf(v) ==
    CASE v.t = "num" -> FloatOfNumber(Literal(v.s).v)
      [] v.t = "str" -> CASE Literal(v.s).lit = "none"    -> Raised("ValueError")
                          [] BeyondFloat(Literal(v.s).v)  -> Value(FloatInf)
                          [] OTHER -> Value([Literal(v.s).v EXCEPT !.ty = "float"])
      [] OTHER       -> Raised("TypeError")

\* The integer part of a finite number, towards zero.
Trunc(x) ==
    IF x.exp > 0 THEN [x EXCEPT !.ty = "int"]
    ELSE IF x.num >= 0 THEN IntNum(x.num \div x.den)
    ELSE IntNum(-((-x.num) \div x.den))

\* int(v) of a decoded JSON value
IntOf(v) ==
    CASE v.t = "num" -> LET x == Literal(v.s).v IN
                        CASE x.fl = "nan" -> Raised("ValueError")
                          [] x.fl = "inf" -> Raised("OverflowError")
                          [] OTHER        -> Value(Trunc(x))
      [] v.t = "str" -> IF Literal(v.s).lit = "int" THEN Value(Literal(v.s).v)
                        ELSE Raised("ValueError")
      [] OTHER       -> Raised("TypeError")

\* The classes an "except Exception" clause catches, of those raised here.
Exceptions == {"KeyError", "TypeError", "ValueError", "OverflowError", "AttributeError"}

\* Mutation of ExceptException: the clause reads "except (TypeError, ValueError)".
ExceptConversionErrors(r, default) ==
    IF r.exc \in {"TypeError", "ValueError"} THEN Value(default) ELSE r

\* try: return <r>  except Exception: return default
ExceptException(r, default) ==
    IF r.exc \in Exceptions THEN Value(default) ELSE r

\* float(e) and int(e) on the value of e, unless e raised.
ThenFloatOf(e) == IF e.exc # "" THEN e ELSE FloatOf(e.val)
ThenIntOf(e) == IF e.exc # "" THEN e ELSE IntOf(e.val)

\* ParsedJson.get(key, default)
Get(pj, key, default) == Value(DictGet(pj, key, default))

\* ParsedJson.get_as_float(key, default)
GetAsFloat(pj, key, default) ==
    ExceptException(ThenFloatOf(GetItem(pj, key)), default)

\* ParsedJson.get_as_int(key, default)
GetAsInt(pj, key, default) ==
    ExceptException(ThenIntOf(GetItem(pj, key)), default)

(* ------------------------------------------------------------------ *)
(* "%" formatting, data sizes and durations                             *)
(* ------------------------------------------------------------------ *)

Abs(n) == IF n < 0 THEN -n ELSE n

\* num/den rounded to the nearest integer, a tie to the even one
\* (num >= 0, den > 0).
RoundHalfEven(num, den) ==
    LET q == num \div den
        r == num % den
    IN  CASE 2 * r < den -> q
          [] 2 * r > den -> q + 1
          [] OTHER       -> IF q % 2 = 0 THEN q ELSE q + 1

\* text filled on the left up to width characters.
RECURSIVE PadLeft(_, _, _)
PadLeft(text, width, fill) ==
    IF Len(text) >= width THEN text ELSE PadLeft(fill \o text, width, fill)

\* "%0<width>d" % n
ZeroPaddedInt(n, width) ==
    IF n < 0 THEN "-" \o PadLeft(ToString(-n), width - 1, "0")
    ELSE PadLeft(ToString(n), width, "0")

\* "%<fill><width>.<places>f" % x for places 1 or 2: the digits of x
\* rounded to that many decimals, filled on the left up to width with
\* spaces or, after the sign, with zeros.
FixedPoint(x, width, fill, places) ==
    CASE x.fl = "nan" -> PadLeft("nan", width, " ")
      [] x.fl = "inf" -> PadLeft("inf", width, " ")
      [] OTHER ->
        LET m == IF places = 1 THEN 10 ELSE 100
            ip == Abs(x.num) \div x.den
            rem == Abs(x.num) % x.den
            frac == IF x.den % m = 0 THEN RoundHalfEven(rem, x.den \div m)
                    ELSE RoundHalfEven(rem * m, x.den)
            t == ip * m + frac
            digits == ToString(t \div m) \o "." \o PadLeft(ToString(t % m), places, "0")
        IN  IF x.num < 0
            THEN IF fill = "0" THEN "-" \o PadLeft(digits, width - 1, "0")
                 ELSE PadLeft("-" \o digits, width, " ")
            ELSE PadLeft(digits, width, fill)

\* Mutation of BelowDivisor: abs(num) <= divisor.
AtMostDivisor(x, divisor) ==
    CASE x.fl # "finite" -> FALSE
      [] x.exp = 0       -> Abs(x.num) <= divisor * x.den
      [] x.b = divisor   -> x.exp = 1 /\ x.num = 1

\* abs(num) < divisor; a nan or an inf is below nothing.  A number
\* written n * b^exp is compared with the divisor b it is written in.
BelowDivisor(x, divisor) ==
    CASE x.fl # "finite" -> FALSE
      [] x.exp = 0       -> Abs(x.num) < divisor * x.den
      [] x.b = divisor   -> FALSE

\* num /= divisor
Divided(x, divisor) ==
    CASE x.fl # "finite" -> x
      [] x.exp = 0       -> [x EXCEPT !.den = @ * divisor]
      [] x.b = divisor   -> [x EXCEPT !.exp = @ - 1]

\* The prefixes the loop of get_datasize_as_human runs through.
Units == <<"", "k", "M", "G", "T", "P", "E", "Z">>

\* Mutation of DatasizeLoop: base 2 puts the 'i' after an empty prefix too.
RECURSIVE DatasizeLoopAlwaysI(_, _, _, _, _)
DatasizeLoopAlwaysI(num, i, divisor, suffix, use_base_10) ==
    IF i > Len(Units)
    THEN FixedPoint(num, 0, " ", 1) \o " " \o
         (IF use_base_10 THEN "Y" ELSE "Yi") \o suffix
    ELSE IF BelowDivisor(num, divisor)
    THEN IF ~use_base_10
         THEN FixedPoint(num, 3, " ", 1) \o " " \o Units[i] \o "i" \o suffix
         ELSE FixedPoint(num, 3, " ", 1) \o " " \o Units[i] \o suffix
    ELSE DatasizeLoopAlwaysI(Divided(num, divisor), i + 1, divisor, suffix, use_base_10)

\* The loop from prefix i on: the first prefix under which the number is
\* below the divisor, or 'Y' after the last division.
RECURSIVE DatasizeLoop(_, _, _, _, _)
DatasizeLoop(num, i, divisor, suffix, use_base_10) ==
    IF i > Len(Units)
    THEN FixedPoint(num, 0, " ", 1) \o " " \o
         (IF use_base_10 THEN "Y" ELSE "Yi") \o suffix
    ELSE IF BelowDivisor(num, divisor)
    THEN IF Units[i] # "" /\ ~use_base_10
         THEN FixedPoint(num, 3, " ", 1) \o " " \o Units[i] \o "i" \o suffix
         ELSE FixedPoint(num, 3, " ", 1) \o " " \o Units[i] \o suffix
    ELSE DatasizeLoop(Divided(num, divisor), i + 1, divisor, suffix, use_base_10)

\* ParsedJson.get_datasize_as_human(key, suffix, default, use_base_10=...)
GetDatasizeAsHuman(pj, key, suffix, default, use_base_10) ==
    LET divisor == IF use_base_10 THEN 1000 ELSE 1024
        num == ThenFloatOf(GetItem(pj, key))
    IN  ExceptException(
            IF num.exc # "" THEN num
            ELSE Value(JStr(DatasizeLoop(num.val, 1, divisor, suffix, use_base_10))),
            default)

\* The "%" of get_duration_as_human: int() of the hours and of the
\* minutes, which a nan refuses, then the three fields.
DurationFormat(duration_hours, duration_mins, duration_secs, finite) ==
    IF ~finite THEN Raised("ValueError")
    ELSE Value(JStr(ZeroPaddedInt(duration_hours, 2) \o ":" \o
                    ZeroPaddedInt(duration_mins, 2) \o ":" \o
                    FixedPoint(duration_secs, 2, "0", 2)))

\* ParsedJson.get_duration_as_human(default)
GetDurationAsHuman(pj, default) ==
    LET duration == ThenFloatOf(GetItem(pj, "duration"))
        secs == duration.val
        mins == secs.num \div (secs.den * 60)
        rest == [secs EXCEPT !.num = @ - mins * 60 * secs.den]
        hours == mins \div 60
    IN  ExceptException(
            IF duration.exc # "" THEN duration
            ELSE DurationFormat(hours, mins - hours * 60, rest, secs.fl = "finite"),
            default)

(* ------------------------------------------------------------------ *)
(* Exceptions and the construction of the result                        *)
(* ------------------------------------------------------------------ *)

\* A raised exception: its class and the arguments it was constructed with.
NoExc == [cls |-> "", args |-> <<>>]
Exc(cls, args) == [cls |-> cls, args |-> args]

\* The classes derived from ffprobe3.exceptions.FFprobeError that the module raises.
FFprobeErrors ==
    {"FFprobeExecutableError", "FFprobeInvalidArgumentError", "FFprobeJsonParseError",
     "FFprobeMediaFileError", "FFprobeOverrideFileError", "FFprobePopenError",
     "FFprobeStreamSubclassError", "FFprobeSubprocessError"}

\* isinstance(parsed_json, Mapping)
IsMapping(v) == v.t = "dict"

\* Mutation of ParsedJsonInit: the isinstance check is left out.
ParsedJsonInitUnchecked(v) == NoExc

\* ParsedJson.__init__, as called by FFformat and FFchapter: the exception raised, if any.
ParsedJsonInit(v) ==
    IF ~IsMapping(v)
    THEN Exc("FFprobeInvalidArgumentError",
             <<"parsed_json", "Supplied parsed JSON is not a dictionary", v>>)
    ELSE NoExc

\* What "for x in v" yields: a list's or a tuple's elements, a dict's
\* keys, a str's characters (each a str); anything else is not iterable.
IsIterable(v) == v.t \in {"list", "tuple", "dict", "str"}
IterItems(v) ==
    CASE v.t \in {"list", "tuple"} -> v.items
      [] v.t = "dict" -> [i \in 1..Len(v.items) |-> JStr(v.items[i][1])]
      [] v.t = "str"  -> <<JStr(v.s)>>
      [] OTHER        -> <<>>

\* A wrapper object: its class, the subtree it refers to and the
\* attributes __init__ assigned, as <<name, value>> in assignment order.
Obj(cls, pj, attrs) == [cls |-> cls, parsed_json |-> pj, attrs |-> attrs]
NoObj == Obj("", JNull, <<>>)
Attr(obj, name) ==
    obj.attrs[CHOOSE i \in 1..Len(obj.attrs) : obj.attrs[i][1] = name][2]

\* The outcome of a constructor call: the exception raised or the object.
Constructed(obj) == [raised |-> NoExc, obj |-> obj]
Failed(e) == [raised |-> e, obj |-> NoObj]
Outcome(e, obj) == IF e.cls # "" THEN Failed(e) ELSE Constructed(obj)

\* try: <r>  except (TypeError, ValueError): <default>
ExceptTypeOrValueError(r, default) ==
    IF r.exc \in {"TypeError", "ValueError"} THEN Value(default) ELSE r

\* try: bit_rate_kbps = float(bit_rate_bps) / 1000.0
\* except (TypeError, ValueError): bit_rate_kbps = None
\* bit_rate_bps is an int or None, and float(None) is a TypeError.
BitRateKbps(bps) ==
    LET converted == IF bps = JNull THEN Raised("TypeError") ELSE FloatOfNumber(bps)
    IN  ExceptTypeOrValueError(
            IF converted.exc # "" THEN converted
            ELSE Value([converted.val EXCEPT !.den = @ * 1000]),
            JNull)

\* FFstream.__init__ for an instance of class cls
FFstreamInit(cls, pj) ==
    IF ~IsMapping(pj) THEN Failed(ParsedJsonInit(pj))
    ELSE Constructed(Obj(cls, pj,
            << <<"index", Get(pj, "index", JNull).val>>,
               <<"codec_type", Get(pj, "codec_type", JNull).val>>,
               <<"codec_name", Get(pj, "codec_name", JNull).val>>,
               <<"codec_long_name", Get(pj, "codec_long_name", JNull).val>>,
               <<"duration_secs", GetAsFloat(pj, "duration", JNull).val>> >>))

\* FFstream.is_attachment, is_audio, is_subtitle, is_video
IsKind(obj, kind) == Attr(obj, "codec_type") = JStr(kind)

\* The kind the __init__ of each variant compares codec_type with.
StreamKind ==
    [FFattachmentStream |-> "attachment", FFaudioStream |-> "audio",
     FFsubtitleStream |-> "subtitle", FFvideoStream |-> "video"]

\* The exception that escapes the assignments of a variant's __init__
\* after the check: the one float(self.bit_rate_bps) lets through.
SubclassAttrsRaised(cls, pj) ==
    IF cls \in {"FFaudioStream", "FFvideoStream"}
    THEN BitRateKbps(GetAsInt(pj, "bit_rate", JNull).val).exc
    ELSE ""

\* The attributes the __init__ of a variant assigns after the check.
SubclassAttrs(cls, pj) ==
    CASE cls = "FFaudioStream" ->
            LET bps == GetAsInt(pj, "bit_rate", JNull).val IN
            << <<"num_channels", GetAsInt(pj, "channels", JNull).val>>,
               <<"num_frames", GetAsInt(pj, "nb_frames", JNull).val>>,
               <<"channel_layout", Get(pj, "channel_layout", JNull).val>>,
               <<"sample_rate_Hz", GetAsInt(pj, "sample_rate", JNull).val>>,
               <<"bit_rate_bps", bps>>,
               <<"bit_rate_kbps", BitRateKbps(bps).val>> >>
      [] cls = "FFvideoStream" ->
            LET bps == GetAsInt(pj, "bit_rate", JNull).val IN
            << <<"width", GetAsInt(pj, "width", JNull).val>>,
               <<"height", GetAsInt(pj, "height", JNull).val>>,
               <<"avg_frame_rate", Get(pj, "avg_frame_rate", JNull).val>>,
               <<"num_frames", GetAsInt(pj, "nb_frames", JNull).val>>,
               <<"bit_rate_bps", bps>>,
               <<"bit_rate_kbps", BitRateKbps(bps).val>> >>
      [] OTHER -> <<>>

\* A variant's __init__ after super().__init__ left base: the check that
\* codec_type is the kind of the class, then rest.
Checked(cls, base, rest) ==
    IF base.raised.cls # "" THEN base
    ELSE IF Attr(base.obj, "codec_type") # JStr(StreamKind[cls])
    THEN Failed(Exc("FFprobeStreamSubclassError",
                    <<cls, Attr(base.obj, "codec_type"), StreamKind[cls]>>))
    ELSE rest

\* A variant's __init__ after the check: the assignments raise, or add
\* attrs to those of base.
AfterCheck(base, raised, attrs) ==
    IF base.raised.cls # "" THEN base
    ELSE IF raised # "" THEN Failed(Exc(raised, <<>>))
    ELSE Constructed([base.obj EXCEPT !.attrs = @ \o attrs])

\* Mutation of FFstreamSubclassInit: the check of codec_type is left out.
FFstreamSubclassInitUnchecked(cls, pj) ==
    AfterCheck(FFstreamInit(cls, pj), SubclassAttrsRaised(cls, pj), SubclassAttrs(cls, pj))

\* FFattachmentStream, FFaudioStream, FFsubtitleStream, FFvideoStream
\* .__init__: the base attributes, the check of codec_type, the rest.
FFstreamSubclassInit(cls, pj) ==
    Checked(cls, FFstreamInit(cls, pj),
            AfterCheck(FFstreamInit(cls, pj), SubclassAttrsRaised(cls, pj),
                       SubclassAttrs(cls, pj)))

\* Mutation of _KNOWN_FFSTREAM_SUBCLASSES: 'audio' names FFvideoStream.
KnownSubclassesAudioAsVideo ==
    [attachment |-> "FFattachmentStream", audio |-> "FFvideoStream",
     subtitle |-> "FFsubtitleStream", video |-> "FFvideoStream"]

\* Mutation of _KNOWN_FFSTREAM_SUBCLASSES: 'subtitle' names FFstream itself.
KnownSubclassesSubtitleGeneric ==
    [attachment |-> "FFattachmentStream", audio |-> "FFaudioStream",
     subtitle |-> "FFstream", video |-> "FFvideoStream"]

_KNOWN_FFSTREAM_SUBCLASSES ==
    [attachment |-> "FFattachmentStream", audio |-> "FFaudioStream",
     subtitle |-> "FFsubtitleStream", video |-> "FFvideoStream"]

\* The constructor a class name stands for.
New(cls, pj) ==
    IF cls = "FFstream" THEN FFstreamInit(cls, pj) ELSE FFstreamSubclassInit(cls, pj)

\* The class _construct_ffstream_subclass picks for a codec_type that
\* is hashable: the variant of a known kind, FFstream for None and for
\* whatever else.
SubclassFor(codec_type) ==
    IF codec_type.t = "str" /\ codec_type.s \in DOMAIN _KNOWN_FFSTREAM_SUBCLASSES
    THEN _KNOWN_FFSTREAM_SUBCLASSES[codec_type.s]
    ELSE "FFstream"

\* Mutation of ConstructStream: every subtree gets the generic wrapper.
ConstructStreamGeneric(pj) ==
    IF ~IsMapping(pj) THEN Failed(Exc("AttributeError", <<"get">>))
    ELSE New("FFstream", pj)

\* _construct_ffstream_subclass(parsed_json): the wrapper or the
\* exception.  A value that is no dict has no .get; a dict or list
\* codec_type is unhashable as a key of _KNOWN_FFSTREAM_SUBCLASSES.
ConstructStream(pj) ==
    IF ~IsMapping(pj) THEN Failed(Exc("AttributeError", <<"get">>))
    ELSE IF DictGet(pj, "codec_type", JNull).t \in {"dict", "list"}
    THEN Failed(Exc("TypeError", <<"unhashable type">>))
    ELSE New(SubclassFor(DictGet(pj, "codec_type", JNull)), pj)

\* _construct_ffstream_subclass(stream): the exception raised, if any.
ConstructFFstreamSubclass(stream) == ConstructStream(stream).raised

\* FFformat.__init__
FFformatInit(pj) ==
    IF ~IsMapping(pj) THEN Failed(ParsedJsonInit(pj))
    ELSE LET bps == GetAsInt(pj, "bit_rate", JNull).val IN
         IF BitRateKbps(bps).exc # "" THEN Failed(Exc(BitRateKbps(bps).exc, <<>>))
         ELSE Constructed(Obj("FFformat", pj,
            << <<"format_name", Get(pj, "format_name", JNull).val>>,
               <<"format_long_name", Get(pj, "format_long_name", JNull).val>>,
               <<"duration_secs", GetAsFloat(pj, "duration", JNull).val>>,
               <<"duration_human", GetDurationAsHuman(pj, JNull).val>>,
               <<"num_streams", GetAsInt(pj, "nb_streams", JNull).val>>,
               <<"bit_rate_bps", bps>>,
               <<"bit_rate_kbps", BitRateKbps(bps).val>>,
               <<"size_B", GetAsInt(pj, "size", JNull).val>>,
               <<"size_human", GetDatasizeAsHuman(pj, "size", "B", JNull, TRUE).val>> >>))

\* The first exception raised, the elements being constructed in order.
FirstRaised(excs) ==
    IF \E i \in 1..Len(excs) : excs[i].cls # ""
    THEN excs[CHOOSE i \in 1..Len(excs) :
                 excs[i].cls # "" /\ \A j \in 1..(i - 1) : excs[j].cls = ""]
    ELSE NoExc

\* raise FFprobeInvalidArgumentError(name, message, value)
Rejected(name, message, value) ==
    Exc("FFprobeInvalidArgumentError", <<name, message, value>>)

\* The exception of the first of two statements that raises.
FirstOf(first, second) == IF first.cls # "" THEN first ELSE second

\* [construct(x) for x in items]: the exception raised, if any, the
\* constructor being the dispatcher or FFchapter.
EachRaised(items, cls) ==
    IF ~IsIterable(items) THEN Exc("TypeError", <<"not iterable">>)
    ELSE FirstRaised([i \in 1..Len(IterItems(items)) |->
                         IF cls = "FFstream" THEN ConstructFFstreamSubclass(IterItems(items)[i])
                         ELSE ParsedJsonInit(IterItems(items)[i])])

\* A list of str as a Python value, and the strs of such a value.
PyList(strings) == JList([i \in 1..Len(strings) |-> JStr(strings[i])])
Strings(list) == [i \in 1..Len(list.items) |-> list.items[i].s]

\* Mutation of SplitCmdlineRejection: the elements are not looked at.
SplitCmdlineRejectionBlind(split_cmdline) ==
    IF split_cmdline.t = "str"
    THEN "Supplied split command-line is actually a single string"
    ELSE IF split_cmdline.t \notin {"list", "tuple", "dict"}
    THEN "Supplied split command-line is not a sequence"
    ELSE IF Len(split_cmdline.items) < 2
    THEN "Supplied split command-line has too few elements"
    ELSE ""

\* Lines 824-848: the message of the check that rejects split_cmdline,
\* "" if none does.  len() of a number or of None raises TypeError,
\* which the handler turns into 'is not a sequence'.
SplitCmdlineRejection(split_cmdline) ==
    IF split_cmdline.t = "str"
    THEN "Supplied split command-line is actually a single string"
    ELSE IF split_cmdline.t \notin {"list", "tuple", "dict"}
    THEN "Supplied split command-line is not a sequence"
    ELSE IF Len(split_cmdline.items) < 2
    THEN "Supplied split command-line has too few elements"
    ELSE IF \E i \in 1..Len(IterItems(split_cmdline)) : IterItems(split_cmdline)[i].t # "str"
    THEN "Supplied split command-line contains non-strings"
    ELSE ""

\* FFprobe.__init__(split_cmdline=..., parsed_json=...): the exception raised, if any.
FFprobeInit(cmdline, json) ==
    IF SplitCmdlineRejection(cmdline) # ""
    THEN Rejected("split_cmdline", SplitCmdlineRejection(cmdline), cmdline)
    ELSE IF ~IsMapping(json)
    THEN Exc("FFprobeInvalidArgumentError",
             <<"parsed_json", "Supplied parsed JSON is not a dictionary", json>>)
    ELSE FirstOf(FFformatInit(DictGet(json, "format", JDict(<<>>))).raised,
                 FirstOf(EachRaised(DictGet(json, "streams", JList(<<>>)), "FFstream"),
                         EachRaised(DictGet(json, "chapters", JList(<<>>)), "FFchapter")))

\* self['tags']['title']: a str, a list or None is not indexed by 'title'.
TagsTitle(pj) ==
    LET tags == GetItem(pj, "tags")
    IN  IF tags.exc # "" THEN tags
        ELSE IF IsMapping(tags.val) THEN GetItem(tags.val, "title")
        ELSE Raised("TypeError")

\* FFchapter.__init__
FFchapterInit(pj) ==
    IF ~IsMapping(pj) THEN Failed(ParsedJsonInit(pj))
    ELSE Constructed(Obj("FFchapter", pj,
            << <<"id", Get(pj, "id", JNull).val>>,
               <<"title", ExceptException(TagsTitle(pj), JNull).val>> >>))

\* Mutation of Classified: the selected wrappers in reverse order.
ClassifiedReversed(objects, streams, kind) ==
    LET sel == SelectSeq(streams, LAMBDA r : IsKind(objects[r], kind))
    IN  [i \in 1..Len(sel) |-> sel[Len(sel) + 1 - i]]

\* [s for s in self.streams if s.is_<kind>()]: the list holds references
\* to the wrappers of self.streams, not new wrappers.
Classified(objects, streams, kind) ==
    SelectSeq(streams, LAMBDA r : IsKind(objects[r], kind))

\* Which object a wrapper holds as parsed_json: the value under a key of
\* the tree, the index-th item that value yields (index 0 for the value
\* itself), or an object that is not part of the tree (fresh).
Ref(key, index, fresh) == [key |-> key, index |-> index, fresh |-> fresh]

\* Mutation of GetRef: the wrapper is given dict(self.get(key, {})).
GetRefCopied(json, key) == Ref(key, 0, TRUE)

\* self.get(key, {}): the very value under the key, or a new empty dict.
GetRef(json, key) == Ref(key, 0, ~DictHas(json, key))

\* for x in self.get(key, []): the very items of the value.
ItemRef(key, index) == Ref(key, index, FALSE)

\* The FFprobe instance FFprobe.__init__ leaves when it raises nothing.
\* objects are the stream wrappers constructed, in the order of their
\* construction; streams and the four lists by kind hold references to
\* them (indexes into objects).
FFprobeOf(cmdline, json, chaps, objects, streams) ==
    [split_cmdline |-> cmdline,
     executed_cmd |-> cmdline[1],
     media_file_path |-> cmdline[Len(cmdline)],
     parsed_json |-> json,
     format |-> FFformatInit(DictGet(json, "format", JDict(<<>>))).obj,
     refs |-> [format |-> GetRef(json, "format"),
               streams |-> [i \in 1..Len(streams) |-> ItemRef("streams", i)],
               chapters |-> [i \in 1..Len(chaps) |-> ItemRef("chapters", i)]],
     objects |-> objects,
     streams |-> streams,
     chapters |-> [i \in 1..Len(chaps) |-> FFchapterInit(chaps[i]).obj],
     attachment |-> Classified(objects, streams, "attachment"),
     audio |-> Classified(objects, streams, "audio"),
     subtitle |-> Classified(objects, streams, "subtitle"),
     video |-> Classified(objects, streams, "video")]

\* The wrappers _construct_ffstream_subclass leaves for the entries.
StreamObjects(trees) == [i \in 1..Len(trees) |-> ConstructStream(trees[i]).obj]

FFprobe(cmdline, json) ==
    FFprobeOf(cmdline, json,
              IterItems(DictGet(json, "chapters", JList(<<>>))),
              StreamObjects(IterItems(DictGet(json, "streams", JList(<<>>)))),
              [i \in 1..Len(IterItems(DictGet(json, "streams", JList(<<>>)))) |-> i])

\* FFvideoStream.get_frame_shape(default): int() of the attributes width
\* and height, each an int or None.
GetFrameShape(obj, default) ==
    LET IntOfAttr(v) == IF v = JNull THEN Raised("TypeError") ELSE Value(Trunc(v))
        w == IntOfAttr(Attr(obj, "width"))
        h == IntOfAttr(Attr(obj, "height"))
    IN  ExceptException(IF w.exc # "" THEN w
                        ELSE IF h.exc # "" THEN h
                        ELSE Value(PyTuple(<<w.val, h.val>>)), default)

(* ------------------------------------------------------------------ *)
(* State                                                               *)
(* ------------------------------------------------------------------ *)

VARIABLES
    pc,                     \* where probe stands: "idle" before a call, "done" after it
    calls,                  \* probe calls made so far
    files,                  \* the regular files that exist
    _SPLIT_COMMAND_LINE,    \* the module-level base argument list
    path_to_media,          \* argument: the target
    communicate_timeout,    \* argument: the timeout
    ffprobe_cmd_override,   \* argument: None or the executable to run
    verify_local_mediafile, \* argument: whether a local target is checked to exist
    split_cmdline,          \* local: the argument list
    ffprobe_cmd,            \* local: the command name
    proc_state,             \* the child: "none", "running" or "exited"
    child_status,           \* the child's exit status once it has exited
    child_doc,              \* what the child prints on stdout if left to finish
    child_err,              \* what the child prints on stderr if left to finish
    pipe_out,               \* what the child has written to stdout
    pipe_err,               \* what the child has written to stderr
    returncode,             \* proc.returncode: None until the child is reaped
    outs,                   \* local: captured stdout, None until communicate returns
    errs,                   \* local: captured stderr, None until communicate returns
    parsed_json,            \* local: None or the decoded tree
    outcome,                \* "none" while running, then "returned" or "raised"
    exc,                    \* the exception probe raised
    result,                 \* None or the FFprobe instance probe returned
    spawns,                 \* history: subprocesses spawned by the current call
    isfile_checked,         \* history: os.path.isfile(path_to_media) was evaluated
    timed_out,              \* history: TimeoutExpired was raised in the current call
    killed,                 \* history: proc.kill() signalled a running child
    popen_exc,              \* history: the exception Popen raised, "" if none
    op,                     \* the call made on the classes of the module, with its arguments
    ret,                    \* what that call returned or raised
    shared_tree,            \* the tree that call was made on, as the call left it
    thread_pc,              \* per thread: where its probe call stands
    thread_args,            \* per thread: the target and the override of its call
    thread_cmdline,         \* per thread: the list its local split_cmdline names
    thread_spawned,         \* per thread: the argument list its call gave to Popen
    thread_recorded,        \* per thread: the argument list its call ended with
    thread_calls            \* probe calls the threads started so far

args == <<path_to_media, communicate_timeout, ffprobe_cmd_override, verify_local_mediafile>>
locals == <<split_cmdline, ffprobe_cmd, outs, errs, parsed_json>>
child == <<proc_state, child_status, child_doc, child_err, pipe_out, pipe_err>>
ended == <<outcome, exc, result>>
history == <<spawns, isfile_checked, timed_out, killed, popen_exc>>
lib == <<op, ret, shared_tree>>
threads == <<thread_pc, thread_args, thread_cmdline, thread_spawned, thread_recorded,
             thread_calls>>
vars == <<pc, calls, files, _SPLIT_COMMAND_LINE, lib, threads, args, locals, child, returncode,
          ended, history>>

\* os.path.isfile(path)
IsFile(path) == path \in files

\* The threads that call probe at the same time.
Threads == {1, 2}

\* Mutation of CopyOfList: split_cmdline = _SPLIT_COMMAND_LINE, the
\* module-level list itself.
SameList(items) == [shared |-> TRUE, items |-> <<>>]

\* list(x): a new list object with the items of x.  A list name refers
\* either to the module-level list (shared) or to a list of its own.
CopyOfList(items) == [shared |-> FALSE, items |-> items]

\* The items of the list a name refers to.
Deref(list) == IF list.shared THEN _SPLIT_COMMAND_LINE ELSE list.items

\* No call made on the classes yet.
NoCall == [name |-> "none"]

Init ==
    /\ op = NoCall
    /\ ret = Value(JNull)
    /\ shared_tree = JNull
    /\ thread_pc = [t \in Threads |-> "idle"]
    /\ thread_args = [t \in Threads |-> [path_to_media |-> "", ffprobe_cmd_override |-> None]]
    /\ thread_cmdline = [t \in Threads |-> CopyOfList(<<>>)]
    /\ thread_spawned = [t \in Threads |-> <<>>]
    /\ thread_recorded = [t \in Threads |-> <<>>]
    /\ thread_calls = 0
    /\ pc = "idle"
    /\ calls = 0
    /\ files \in FileSystems
    /\ _SPLIT_COMMAND_LINE = BaseCommandLine
    /\ path_to_media = "media.mp4"
    /\ communicate_timeout = PyFloatTenths(100)
    /\ ffprobe_cmd_override = None
    /\ verify_local_mediafile = TRUE
    /\ split_cmdline = <<>>
    /\ ffprobe_cmd = ""
    /\ proc_state = "none"
    /\ child_status = 0
    /\ child_doc = <<>>
    /\ child_err = <<>>
    /\ pipe_out = <<>>
    /\ pipe_err = <<>>
    /\ returncode = None
    /\ outs = None
    /\ errs = None
    /\ parsed_json = None
    /\ outcome = "none"
    /\ exc = NoExc
    /\ result = None
    /\ spawns = 0
    /\ isfile_checked = FALSE
    /\ timed_out = FALSE
    /\ killed = FALSE
    /\ popen_exc = ""

\* return <constructor call>: the call ends with the object or with the
\* exception the constructor raised.
Return(constructed) ==
    /\ pc' = "done"
    /\ outcome' = IF constructed.raised.cls # "" THEN "raised" ELSE "returned"
    /\ exc' = IF constructed.raised.cls # "" THEN constructed.raised ELSE exc
    /\ result' = IF constructed.raised.cls # "" THEN None ELSE Some(constructed.obj)

\* raise e: the call ends, nothing is returned.
Raise(e) ==
    /\ pc' = "done"
    /\ outcome' = "raised"
    /\ exc' = e
    /\ result' = None

(* ------------------------------------------------------------------ *)
(* probe: the validation of the arguments (lines 189-265)               *)
(* ------------------------------------------------------------------ *)

\* Mutation of NextCheck: the local file is checked first, then the
\* override, then the timeout.
NextCheckFileFirst(step) ==
    CASE step = "call" -> "media"
      [] step = "media" -> "override"
      [] step = "override" -> "timeout"
      [] step = "timeout" -> "append"

\* The statement that follows the call and each of the checks: the
\* override (lines 192-197), then the timeout (lines 199-208), then the
\* local file (lines 230-246), then the append (line 265).
NextCheck(step) ==
    CASE step = "call" -> "override"
      [] step = "override" -> "timeout"
      [] step = "timeout" -> "media"
      [] step = "media" -> "append"

\* probe(path, communicate_timeout=timeout, ffprobe_cmd_override=override,
\* verify_local_mediafile=verify) is called; lines 189-190 copy the base
\* list and read the command name from the copy.
Probe(path, timeout, override, verify) ==
    /\ pc \in {"idle", "done"}
    /\ calls < MaxCalls
    /\ calls' = calls + 1
    /\ path_to_media' = path
    /\ communicate_timeout' = timeout
    /\ ffprobe_cmd_override' = override
    /\ verify_local_mediafile' = verify
    /\ split_cmdline' = _SPLIT_COMMAND_LINE
    /\ ffprobe_cmd' = _SPLIT_COMMAND_LINE[1]
    /\ proc_state' = "none"
    /\ child_status' = 0
    /\ child_doc' = <<>>
    /\ child_err' = <<>>
    /\ pipe_out' = <<>>
    /\ pipe_err' = <<>>
    /\ returncode' = None
    /\ outs' = None
    /\ errs' = None
    /\ parsed_json' = None
    /\ outcome' = "none"
    /\ exc' = NoExc
    /\ result' = None
    /\ spawns' = 0
    /\ isfile_checked' = FALSE
    /\ timed_out' = FALSE
    /\ killed' = FALSE
    /\ popen_exc' = ""
    /\ pc' = NextCheck("call")
    /\ UNCHANGED <<files, _SPLIT_COMMAND_LINE, lib, threads>>

\* Mutation of CheckOverride: the override becomes ffprobe_cmd only and
\* the argument list keeps its first element.
CheckOverrideKeepsList ==
    /\ pc = "override"
    /\ IF ffprobe_cmd_override # None /\ ~IsFile(ffprobe_cmd_override[1])
       THEN /\ Raise(Exc("FFprobeOverrideFileError", <<ffprobe_cmd_override[1]>>))
            /\ UNCHANGED <<split_cmdline, ffprobe_cmd>>
       ELSE /\ IF ffprobe_cmd_override # None
               THEN /\ ffprobe_cmd' = ffprobe_cmd_override[1]
                    /\ UNCHANGED split_cmdline
               ELSE UNCHANGED <<split_cmdline, ffprobe_cmd>>
            /\ pc' = NextCheck("override")
            /\ UNCHANGED ended
    /\ UNCHANGED <<calls, files, _SPLIT_COMMAND_LINE, lib, threads, args, outs, errs, parsed_json,
                   child, returncode, history>>

\* Lines 192-197: the executable override.
CheckOverride ==
    /\ pc = "override"
    /\ IF ffprobe_cmd_override # None /\ ~IsFile(ffprobe_cmd_override[1])
       THEN /\ Raise(Exc("FFprobeOverrideFileError", <<ffprobe_cmd_override[1]>>))
            /\ UNCHANGED <<split_cmdline, ffprobe_cmd>>
       ELSE /\ IF ffprobe_cmd_override # None
               THEN /\ ffprobe_cmd' = ffprobe_cmd_override[1]
                    /\ split_cmdline' = [split_cmdline EXCEPT ![1] = ffprobe_cmd_override[1]]
               ELSE UNCHANGED <<split_cmdline, ffprobe_cmd>>
            /\ pc' = NextCheck("override")
            /\ UNCHANGED ended
    /\ UNCHANGED <<calls, files, _SPLIT_COMMAND_LINE, lib, threads, args, outs, errs, parsed_json,
                   child, returncode, history>>

\* Lines 199-208: the message of the check that rejects the timeout, "" if none does.
TimeoutRejection(timeout) ==
    IF timeout.ty = "NoneType" THEN ""
    ELSE IF ~IsIntOrFloat(timeout) THEN "Supplied timeout is non-None and non-numeric"
    ELSE IF LeZero(timeout) THEN "Supplied timeout is non-None and non-positive"
    ELSE ""

\* Lines 199-208: the timeout.
CheckTimeout ==
    /\ pc = "timeout"
    /\ IF TimeoutRejection(communicate_timeout) # ""
       THEN Raise(Exc("FFprobeInvalidArgumentError",
                      <<"communicate_timeout", TimeoutRejection(communicate_timeout),
                        communicate_timeout>>))
       ELSE /\ pc' = NextCheck("timeout")
            /\ UNCHANGED ended
    /\ UNCHANGED <<calls, files, _SPLIT_COMMAND_LINE, lib, threads, args, locals, child, returncode,
                   history>>

\* Lines 230-243: whether os.path.isfile(path_to_media) is evaluated.
ChecksLocalFile(verify, path) == verify /\ ~UriSchemeMatches(path)

\* Mutation of CheckMediaFile: the test of os.path.isfile is inverted.
CheckMediaFileInverted ==
    /\ pc = "media"
    /\ isfile_checked' = ChecksLocalFile(verify_local_mediafile, path_to_media)
    /\ IF ChecksLocalFile(verify_local_mediafile, path_to_media) /\ IsFile(path_to_media)
       THEN Raise(Exc("FFprobeMediaFileError", <<path_to_media>>))
       ELSE /\ pc' = NextCheck("media")
            /\ UNCHANGED ended
    /\ UNCHANGED <<calls, files, _SPLIT_COMMAND_LINE, lib, threads, args, locals, child, returncode,
                   spawns, timed_out, killed, popen_exc>>

\* Lines 230-246: the local media file.
CheckMediaFile ==
    /\ pc = "media"
    /\ isfile_checked' = ChecksLocalFile(verify_local_mediafile, path_to_media)
    /\ IF ChecksLocalFile(verify_local_mediafile, path_to_media) /\ ~IsFile(path_to_media)
       THEN Raise(Exc("FFprobeMediaFileError", <<path_to_media>>))
       ELSE /\ pc' = NextCheck("media")
            /\ UNCHANGED ended
    /\ UNCHANGED <<calls, files, _SPLIT_COMMAND_LINE, lib, threads, args, locals, child, returncode,
                   spawns, timed_out, killed, popen_exc>>

\* Line 265: the target becomes the last argument.
AppendPath ==
    /\ pc = "append"
    /\ split_cmdline' = Append(split_cmdline, path_to_media)
    /\ pc' = "popen"
    /\ UNCHANGED <<calls, files, _SPLIT_COMMAND_LINE, lib, threads, args, ffprobe_cmd, outs, errs,
                   parsed_json, child, returncode, ended, history>>

(* ------------------------------------------------------------------ *)
(* probe: the spawn (lines 267-302)                                     *)
(* ------------------------------------------------------------------ *)

\* What subprocess.Popen does: it starts the child or raises one of these.
PopenRaises == {"FileNotFoundError", "PermissionError", "OSError", "ValueError",
                "SubprocessError"}

\* issubclass(cls, OSError)
IsOSError(cls) == cls \in {"OSError", "FileNotFoundError", "PermissionError"}

\* Mutation of PopenHandler: the handler of OSError stands first and
\* catches FileNotFoundError too.
PopenHandlerOSErrorFirst(e, cmd) ==
    IF IsOSError(e) THEN Exc("FFprobePopenError", <<e, "OSError">>)
    ELSE IF e = "FileNotFoundError" THEN Exc("FFprobeExecutableError", <<cmd>>)
    ELSE IF e = "ValueError" THEN Exc("FFprobePopenError", <<e, "ValueError">>)
    ELSE Exc("FFprobePopenError", <<e, "subprocess.SubprocessError">>)

\* Lines 275-302: the handlers, in order, for an exception e that Popen raised.
PopenHandler(e, cmd) ==
    IF e = "FileNotFoundError" THEN Exc("FFprobeExecutableError", <<cmd>>)
    ELSE IF IsOSError(e) THEN Exc("FFprobePopenError", <<e, "OSError">>)
    ELSE IF e = "ValueError" THEN Exc("FFprobePopenError", <<e, "ValueError">>)
    ELSE Exc("FFprobePopenError", <<e, "subprocess.SubprocessError">>)

\* Lines 269-272: Popen starts the child, which will print doc and err
\* unless it exits or is killed before.
PopenStarts(doc, err) ==
    /\ pc = "popen"
    /\ proc_state' = "running"
    /\ child_doc' = doc
    /\ child_err' = err
    /\ spawns' = spawns + 1
    /\ pc' = "communicate"
    /\ UNCHANGED <<calls, files, _SPLIT_COMMAND_LINE, lib, threads, args, locals, child_status,
                   pipe_out, pipe_err, returncode, ended, isfile_checked, timed_out,
                   killed, popen_exc>>

\* Lines 269-302: Popen raises e and no child exists.
PopenFails(e) ==
    /\ pc = "popen"
    /\ Raise(PopenHandler(e, ffprobe_cmd))
    /\ popen_exc' = e
    /\ UNCHANGED <<calls, files, _SPLIT_COMMAND_LINE, lib, threads, args, locals, child, returncode,
                   spawns, isfile_checked, timed_out, killed>>

(* ------------------------------------------------------------------ *)
(* The child process                                                   *)
(* ------------------------------------------------------------------ *)

\* The child writes its next lexeme to stdout.
ChildWritesStdout ==
    /\ proc_state = "running"
    /\ Len(pipe_out) < Len(child_doc)
    /\ pipe_out' = Append(pipe_out, child_doc[Len(pipe_out) + 1])
    /\ UNCHANGED <<pc, calls, files, _SPLIT_COMMAND_LINE, lib, threads, args, locals, proc_state,
                   child_status, child_doc, child_err, pipe_err, returncode, ended,
                   history>>

\* The child writes its next line to stderr.
ChildWritesStderr ==
    /\ proc_state = "running"
    /\ Len(pipe_err) < Len(child_err)
    /\ pipe_err' = Append(pipe_err, child_err[Len(pipe_err) + 1])
    /\ UNCHANGED <<pc, calls, files, _SPLIT_COMMAND_LINE, lib, threads, args, locals, proc_state,
                   child_status, child_doc, child_err, pipe_out, returncode, ended,
                   history>>

\* The child exits on its own with exit code code; its pipe ends close.
ChildExits(code) ==
    /\ proc_state = "running"
    /\ proc_state' = "exited"
    /\ child_status' = code
    /\ UNCHANGED <<pc, calls, files, _SPLIT_COMMAND_LINE, lib, threads, args, locals, child_doc,
                   child_err, pipe_out, pipe_err, returncode, ended, history>>

(* ------------------------------------------------------------------ *)
(* probe: communicate, kill and drain (lines 334-338)                   *)
(* ------------------------------------------------------------------ *)

\* Popen.communicate returns: both pipes are at end-of-file and the child
\* has been waited for; proc.returncode is its exit status.
CommunicateReturns ==
    /\ proc_state = "exited"
    /\ outs' = Some(pipe_out)
    /\ errs' = Some(pipe_err)
    /\ returncode' = Some(child_status)
    /\ pc' = "loads"
    /\ UNCHANGED <<calls, files, _SPLIT_COMMAND_LINE, lib, threads, args, split_cmdline, ffprobe_cmd,
                   parsed_json, child, ended, history>>

\* Line 335: the timed communicate returns.
Communicate ==
    /\ pc = "communicate"
    /\ CommunicateReturns

\* Mutation of TimeoutExpired: on timeout the child is killed and the
\* command is run again.
TimeoutExpiredRetries ==
    /\ pc = "communicate"
    /\ communicate_timeout.ty # "NoneType"
    /\ timed_out' = TRUE
    /\ proc_state' = "exited"
    /\ child_status' = IF proc_state = "running" THEN -SIGKILL ELSE child_status
    /\ pc' = "popen"
    /\ UNCHANGED <<calls, files, _SPLIT_COMMAND_LINE, lib, threads, args, locals, child_doc, child_err,
                   pipe_out, pipe_err, returncode, ended, spawns, isfile_checked, killed,
                   popen_exc>>

\* Lines 335-336: communicate(timeout=communicate_timeout) raises
\* TimeoutExpired; the child may be running or may just have exited.
TimeoutExpired ==
    /\ pc = "communicate"
    /\ communicate_timeout.ty # "NoneType"
    /\ timed_out' = TRUE
    /\ pc' = "kill"
    /\ UNCHANGED <<calls, files, _SPLIT_COMMAND_LINE, lib, threads, args, locals, child, returncode,
                   ended, spawns, isfile_checked, killed, popen_exc>>

\* Line 335: communicate is given a timeout that is no finite number and
\* raises what the poll call raises for it (ValueError for nan,
\* OverflowError for inf); no handler of probe catches it.
CommunicateRejectsTimeout ==
    /\ pc = "communicate"
    /\ communicate_timeout.fl # "finite"
    /\ Raise(Exc(IF communicate_timeout.fl = "nan" THEN "ValueError" ELSE "OverflowError",
                 <<communicate_timeout>>))
    /\ UNCHANGED <<calls, files, _SPLIT_COMMAND_LINE, lib, threads, args, locals, child, returncode,
                   history>>

\* Mutation of Kill: the child is polled but never signalled.
KillOmitted ==
    /\ pc = "kill"
    /\ IF proc_state = "running"
       THEN UNCHANGED <<proc_state, child_status, killed, returncode>>
       ELSE /\ returncode' = Some(child_status)
            /\ UNCHANGED <<proc_state, child_status, killed>>
    /\ pc' = "drain"
    /\ UNCHANGED <<calls, files, _SPLIT_COMMAND_LINE, lib, threads, args, locals, child_doc, child_err,
                   pipe_out, pipe_err, ended, spawns, isfile_checked, timed_out,
                   popen_exc>>

\* Line 337: proc.kill() polls the child and signals it if it still runs.
Kill ==
    /\ pc = "kill"
    /\ IF proc_state = "running"
       THEN /\ proc_state' = "exited"
            /\ child_status' = -SIGKILL
            /\ killed' = TRUE
            /\ UNCHANGED returncode
       ELSE /\ returncode' = Some(child_status)
            /\ UNCHANGED <<proc_state, child_status, killed>>
    /\ pc' = "drain"
    /\ UNCHANGED <<calls, files, _SPLIT_COMMAND_LINE, lib, threads, args, locals, child_doc, child_err,
                   pipe_out, pipe_err, ended, spawns, isfile_checked, timed_out,
                   popen_exc>>

\* Line 338: the untimed communicate returns.
Drain ==
    /\ pc = "drain"
    /\ CommunicateReturns

(* ------------------------------------------------------------------ *)
(* probe: decode, exit status and result (lines 358-366)                *)
(* ------------------------------------------------------------------ *)

\* Mutation of LoadJson: a decode error is swallowed and an empty dict
\* stands in for the tree.
LoadJsonSubstitutesEmpty ==
    /\ pc = "loads"
    /\ parsed_json' = IF JsonLoads(outs[1]).ok THEN Some(JsonLoads(outs[1]).val)
                      ELSE Some(JDict(<<>>))
    /\ pc' = "exit_status"
    /\ UNCHANGED <<calls, files, _SPLIT_COMMAND_LINE, lib, threads, args, split_cmdline, ffprobe_cmd,
                   outs, errs, child, returncode, ended, history>>

\* Lines 358-361: json.loads(outs).
LoadJson ==
    /\ pc = "loads"
    /\ IF JsonLoads(outs[1]).ok
       THEN /\ parsed_json' = Some(JsonLoads(outs[1]).val)
            /\ pc' = "exit_status"
            /\ UNCHANGED ended
       ELSE /\ Raise(Exc("FFprobeJsonParseError",
                         <<[cls |-> "JSONDecodeError", doc |-> outs[1]],
                           "json.decoder.JSONDecodeError">>))
            /\ UNCHANGED parsed_json
    /\ UNCHANGED <<calls, files, _SPLIT_COMMAND_LINE, lib, threads, args, split_cmdline, ffprobe_cmd,
                   outs, errs, child, returncode, history>>

\* Mutation of ExitStatusFails: exit_status > 0, which misses the negative
\* status of a child ended by a signal.
ExitStatusFailsPositive(exit_status) == exit_status > 0

\* Line 363: exit_status != 0
ExitStatusFails(exit_status) == exit_status # 0

\* Lines 362-364: the exit status.
CheckExitStatus ==
    /\ pc = "exit_status"
    /\ IF ExitStatusFails(returncode[1])
       THEN Raise(Exc("FFprobeSubprocessError", <<split_cmdline, returncode[1], errs[1]>>))
       ELSE /\ pc' = "construct"
            /\ UNCHANGED ended
    /\ UNCHANGED <<calls, files, _SPLIT_COMMAND_LINE, lib, threads, args, locals, child, returncode,
                   history>>

\* Line 366: the result is constructed and returned, or its constructor raises.
Construct ==
    /\ pc = "construct"
    /\ Return(Outcome(FFprobeInit(PyList(split_cmdline), parsed_json[1]),
                      FFprobe(split_cmdline, parsed_json[1])))
    /\ UNCHANGED <<calls, files, _SPLIT_COMMAND_LINE, lib, threads, args, locals, child, returncode,
                   history>>

(* ------------------------------------------------------------------ *)
(* Specification                                                       *)
(* ------------------------------------------------------------------ *)

Next ==
    \/ \E path \in MediaPaths, timeout \in Timeouts,
          override \in {None, Some(OverridePath)}, verify \in BOOLEAN :
            Probe(path, timeout, override, verify)
    \/ CheckOverride
    \/ CheckTimeout
    \/ CheckMediaFile
    \/ AppendPath
    \/ \E doc \in Docs, err \in ErrTexts : PopenStarts(doc, err)
    \/ \E e \in PopenRaises : PopenFails(e)
    \/ ChildWritesStdout
    \/ ChildWritesStderr
    \/ \E code \in ExitCodes : ChildExits(code)
    \/ Communicate
    \/ TimeoutExpired
    \/ CommunicateRejectsTimeout
    \/ Kill
    \/ Drain
    \/ LoadJson
    \/ CheckExitStatus
    \/ Construct

Spec == Init /\ [][Next]_vars

\* The steps probe takes by itself once it is called: the interpreter
\* runs the next statement, Popen returns or raises, and a communicate
\* given a timeout returns or raises when the time is up at the latest.
\* The child is not among them: it writes and exits when it likes, or
\* never.
ProbeSteps ==
    \/ CheckOverride
    \/ CheckTimeout
    \/ CheckMediaFile
    \/ AppendPath
    \/ \E doc \in Docs, err \in ErrTexts : PopenStarts(doc, err)
    \/ \E e \in PopenRaises : PopenFails(e)
    \/ Communicate
    \/ TimeoutExpired
    \/ CommunicateRejectsTimeout
    \/ Kill
    \/ Drain
    \/ LoadJson
    \/ CheckExitStatus
    \/ Construct

\* The same steps, with probe never stopping while it has a step to take.
SpecLive == Init /\ [][Next]_vars /\ WF_vars(ProbeSteps)

(* ------------------------------------------------------------------ *)
(* Vocabulary of the properties                                        *)
(* ------------------------------------------------------------------ *)

\* The stdout texts that are one complete JSON document.
JsonTexts ==
    { <<"{", "}">>,
      <<"{", "format", ":", "{", "}", "}">>,
      <<"{", "streams", ":", "0", "}">>,
      <<"[", "]">> }

\* The targets that start with a URI scheme, ^[a-z][a-z0-9-]*://
UriTargets == {"http://h", "a-1://h"}

\* The timeouts that are not None and are non-numeric or not above zero
\* as Python compares them.
RejectedTimeouts == {PyStr, PyInt(0), PyFloatTenths(-5)}

\* The timeouts that are no positive number of seconds.
NotPositiveNumbers == {PyNone, PyStr, PyInt(0), PyFloatTenths(-5), PyNaN}

Called == pc # "idle"
Done == pc = "done"
OverrideExists == ffprobe_cmd_override = None \/ ffprobe_cmd_override[1] \in files
MediaCheckFails ==
    verify_local_mediafile /\ path_to_media \notin UriTargets /\ path_to_media \notin files

\* The call got past the check of the override / of the timeout.
PassedOverride == Called /\ pc # "override" /\ exc.cls # "FFprobeOverrideFileError"
RaisedTimeoutError ==
    exc.cls = "FFprobeInvalidArgumentError" /\ exc.args[1] = "communicate_timeout"
PassedTimeout == PassedOverride /\ pc # "timeout" /\ ~RaisedTimeoutError
PassedMedia == PassedTimeout /\ pc # "media" /\ exc.cls # "FFprobeMediaFileError"

\* communicate has returned: stdout and stderr are captured.
Captured == outs # None

(* ------------------------------------------------------------------ *)
(* Properties                                                          *)
(* ------------------------------------------------------------------ *)

\* C1: probe returns a result only when the child ended with exit code 0
\* and its stdout is a JSON document; a call that ends after a non-zero
\* exit or after capturing undecodable stdout has raised and returns nothing.
Thm_C1 ==
    /\ outcome = "returned" =>
          /\ Done /\ result # None /\ exc = NoExc
          /\ proc_state = "exited" /\ child_status = 0
          /\ Captured /\ outs[1] = pipe_out /\ pipe_out \in JsonTexts
    /\ (Done /\ Captured /\ (child_status # 0 \/ outs[1] \notin JsonTexts)) =>
          /\ outcome = "raised" /\ exc.cls # "" /\ result = None
    /\ Done => outcome \in {"returned", "raised"}
    /\ outcome = "raised" => result = None

\* A result was returned.
Witness_C1 == outcome = "returned" /\ result # None /\ child_status = 0

\* C2 (as claimed): whenever the child ended with a non-zero exit code,
\* whatever it printed, probe raises FFprobeSubprocessError with that exit
\* status, the captured stderr and the executed argument list.
Claim_C2 ==
    (Done /\ Captured /\ child_status # 0) =>
        /\ exc.cls = "FFprobeSubprocessError"
        /\ exc.args[1] = split_cmdline
        /\ exc.args[2] = child_status
        /\ exc.args[3] = pipe_err

\* C3: stdout that is no JSON document makes probe raise
\* FFprobeJsonParseError around the decode error of that very text; no tree
\* is ever substituted for it.
Thm_C3 ==
    /\ (Captured /\ outs[1] \notin JsonTexts) =>
          /\ parsed_json = None
          /\ pc \in {"loads", "done"}
    /\ (Done /\ Captured /\ outs[1] \notin JsonTexts) =>
          /\ outcome = "raised" /\ result = None
          /\ exc.cls = "FFprobeJsonParseError"
          /\ exc.args[1] = [cls |-> "JSONDecodeError", doc |-> outs[1]]
    /\ parsed_json # None => Captured /\ parsed_json[1] = JsonLoads(outs[1]).val

\* A decode error was raised for a child that exited with 0.
Witness_C3 ==
    Done /\ exc.cls = "FFprobeJsonParseError" /\ child_status = 0 /\ outs[1] \notin JsonTexts

\* C4: a missing override, a rejected timeout or a failed local-file check
\* ends the call with its typed error and without any spawn; a child is
\* spawned only after all three validations succeeded.
Thm_C4 ==
    /\ spawns > 0 \/ proc_state # "none" \/ pc \in {"popen", "communicate"} =>
          /\ OverrideExists
          /\ communicate_timeout \notin RejectedTimeouts
          /\ ~MediaCheckFails
    /\ (Done /\ ~OverrideExists) =>
          exc = Exc("FFprobeOverrideFileError", <<ffprobe_cmd_override[1]>>)
    /\ (Done /\ OverrideExists /\ communicate_timeout \in RejectedTimeouts) =>
          RaisedTimeoutError
    /\ (Done /\ OverrideExists /\ communicate_timeout \notin RejectedTimeouts
             /\ MediaCheckFails) =>
          exc.cls = "FFprobeMediaFileError"
    /\ (exc.cls \in {"FFprobeOverrideFileError", "FFprobeMediaFileError"}
             \/ RaisedTimeoutError) =>
          spawns = 0 /\ proc_state = "none"

\* The local-file check failed and nothing was spawned.
Witness_C4 == Done /\ exc.cls = "FFprobeMediaFileError" /\ spawns = 0

\* C5 (as claimed): wherever probe returns or raises after a successful
\* spawn, the child has terminated, has been waited for and both pipes
\* have been read to end-of-file.
Claim_C5 ==
    (Done /\ spawns > 0) =>
        /\ proc_state = "exited"
        /\ returncode = Some(child_status)
        /\ outs = Some(pipe_out)
        /\ errs = Some(pipe_err)

Thm_C7 ==
    /\ spawns <= 1
    /\ (timed_out \/ Captured \/ popen_exc # "") => pc # "popen"
    /\ pc \in {"communicate", "kill", "drain", "loads", "exit_status", "construct"} =>
          spawns = 1

\* A call that timed out, killed its child and failed has spawned once.
Witness_C7 == Done /\ timed_out /\ killed /\ outcome = "raised" /\ spawns = 1

\* C8: with a valid override and timeout, os.path.isfile(target) is
\* evaluated exactly when verify_local_mediafile holds and the target has
\* no URI scheme; a check that finds no file raises FFprobeMediaFileError
\* with the target as passed; without the check that error is never raised.
Thm_C8 ==
    /\ (PassedTimeout /\ pc # "media") =>
          /\ isfile_checked <=> (verify_local_mediafile /\ path_to_media \notin UriTargets)
          /\ (isfile_checked /\ path_to_media \notin files) =>
                /\ Done /\ spawns = 0
                /\ exc = Exc("FFprobeMediaFileError", <<path_to_media>>)
          /\ (isfile_checked /\ path_to_media \in files) => exc.cls # "FFprobeMediaFileError"
    /\ ~isfile_checked => exc.cls # "FFprobeMediaFileError"

\* A target whose scheme is written in capitals is checked as a local file.
Witness_C8 ==
    /\ Done /\ isfile_checked /\ path_to_media = "HTTP://h"
    /\ exc = Exc("FFprobeMediaFileError", <<"HTTP://h">>)

Thm_C10 ==
    /\ popen_exc = "FileNotFoundError" =>
          exc = Exc("FFprobeExecutableError",
                    <<IF ffprobe_cmd_override = None THEN "ffprobe"
                      ELSE ffprobe_cmd_override[1]>>)
    /\ (popen_exc # "" /\ popen_exc # "FileNotFoundError") =>
          exc.cls = "FFprobePopenError" /\ exc.args[1] = popen_exc
    /\ popen_exc # "" => Done /\ outcome = "raised" /\ spawns = 0 /\ proc_state = "none"
    /\ exc.cls = "FFprobeExecutableError" => popen_exc = "FileNotFoundError"
    /\ exc.cls = "FFprobePopenError" => popen_exc \in PopenRaises \ {"FileNotFoundError"}

\* The override, an existing file, could not be found by Popen.
Witness_C10 ==
    /\ popen_exc = "FileNotFoundError" /\ ffprobe_cmd_override = Some(OverridePath)
    /\ exc = Exc("FFprobeExecutableError", <<OverridePath>>)

\* C11 (as claimed): a call whose child exited with 0 and printed a JSON
\* document, whatever its shape, returns a result or raises a class
\* derived from FFprobeError.
Claim_C11 ==
    (Done /\ Captured /\ child_status = 0 /\ outs[1] \in JsonTexts) =>
        \/ outcome = "returned"
        \/ outcome = "raised" /\ exc.cls \in FFprobeErrors

(* ------------------------------------------------------------------ *)
(* The classes of the module called on a decoded tree                   *)
(* ------------------------------------------------------------------ *)

\* The longest "streams" list of the trees an FFprobe is constructed on.
MaxStreams == 3

\* The subtrees of streams: the four known kinds, a kind that is not
\* known, no kind, and kinds that are not a str.
VideoTree ==
    JDict(<< <<"index", JNum("0")>>, <<"codec_type", JStr("video")>>,
             <<"width", JNum("640")>>, <<"height", JNum("480")>>,
             <<"duration", JStr("30.96")>>, <<"bit_rate", JStr("128000")>> >>)
AudioTree ==
    JDict(<< <<"codec_type", JStr("audio")>>, <<"channels", JNum("2")>>,
             <<"bit_rate", JStr("abc")>> >>)
KindTree(kind) == JDict(<< <<"codec_type", kind>> >>)
StreamTrees ==
    {VideoTree, AudioTree, KindTree(JStr("video")), KindTree(JStr("subtitle")),
     KindTree(JStr("attachment")), KindTree(JStr("data")), KindTree(JNull),
     KindTree(JNum("0")), JDict(<<>>)}
UnhashableKindTrees == {KindTree(JList(<<>>)), KindTree(JDict(<<>>))}
NotMappings == {JNum("0"), JStr("video"), JList(<<>>), JNull}

\* The trees an FFprobe is constructed on.
StreamLists == UNION {[1..n -> StreamTrees] : n \in 0..MaxStreams}
FormatTree ==
    JDict(<< <<"format_name", JStr("mp4")>>, <<"duration", JStr("30.998")>>,
             <<"size", JStr("5243244")>>, <<"bit_rate", JStr("128000")>> >>)
ChapterTrees ==
    {JDict(<< <<"id", JNum("0")>>, <<"tags", JDict(<< <<"title", JStr("Intro")>> >>)>> >>),
     JDict(<< <<"tags", JStr("Intro")>> >>), JDict(<<>>), JNum("0")}
ProbeTrees ==
    {JDict(<< <<"streams", JList(l)>> >>) : l \in StreamLists}
    \cup {JDict(<< <<"format", FormatTree>>, <<"streams", JList(<<VideoTree, AudioTree>>)>>,
                   <<"chapters", JList(<<c>>)>> >>) : c \in ChapterTrees}
    \cup {JDict(<< <<"streams", JList(<<KindTree(JStr("video")), t>>)>> >>) :
              t \in UnhashableKindTrees \cup NotMappings}
    \cup {JDict(<< <<k, v>> >>) : k \in {"format", "streams", "chapters"},
                                  v \in NotMappings \cup {JDict(<<>>)}}
    \cup NotMappings

\* The classes of wrappers of streams.
StreamClasses ==
    {"FFstream", "FFattachmentStream", "FFaudioStream", "FFsubtitleStream", "FFvideoStream"}

\* The values stored under the key the getters are called with.
GetterValues ==
    {JStr("1.5"), JStr("5"), JStr("abc"), JStr("nan"), JStr("inf"), JStr("7.9"),
     JNum("7.9"), JNum("-7.9"), JNum("640"), JNull, JList(<<>>), JDict(<<>>)}
Defaults == {JNull, JStr("D")}
Getters == {"get", "__getitem__", "get_as_float", "get_as_int"}

\* The trees the getters are called on: the key present or not.
KeyTrees(key, values) == {JDict(<<>>)} \cup {JDict(<< <<key, v>> >>) : v \in values}

\* Mutation of Assigned: get stores the default under a missing key, as
\* dict.setdefault does.
AssignedBySetdefault(name, key, default) ==
    IF name = "get" THEN << <<key, default>> >> ELSE <<>>

\* The <<key, value>> a call assigns into the dict it is made on.  The
\* constructors and the methods read it with .get(key, default), [key],
\* "in", iteration and len, and assign attributes of the wrapper only;
\* none of them holds an assignment to an item of parsed_json.
Assigned(name, key, default) == <<>>

\* The dict a call was made on, as the call left it.
TreeAfter(tree, name, key, default) ==
    LET stores == Assigned(name, key, default) IN
    IF ~IsMapping(tree) \/ stores = <<>> THEN tree
    ELSE JDict(IF DictHas(tree, stores[1][1]) THEN tree.items
               ELSE DictSet(tree.items, stores[1][1], stores[1][2]))

probe_vars ==
    <<pc, calls, files, _SPLIT_COMMAND_LINE, threads, args, locals, child, returncode,
      ended, history>>

\* The values passed as split_cmdline: a list that passes, the default
\* empty list, a list of one str, a single str, a list and a tuple that
\* hold a number, a number and None.
ValidCommandLine == PyList(<<"ffprobe", "media.mp4">>)
CommandLines ==
    {ValidCommandLine, JList(<<>>), PyList(<<"ffprobe">>), JStr("ffprobe media.mp4"),
     JList(<<JStr("ffprobe"), JNum("0")>>), PyTuple(<<JNum("0"), JStr("media.mp4")>>),
     JNum("0"), JNull}

\* The trees an FFprobe is constructed on with each of those values.
CommandLineTrees ==
    {JDict(<<>>), JNull, JList(<<>>),
     JDict(<< <<"format", FormatTree>>, <<"streams", JList(<<VideoTree, AudioTree>>)>>,
              <<"chapters", JList(<<JDict(<<>>)>>)>> >>)}

\* FFprobe(split_cmdline=cmdline, parsed_json=tree)
NewFFprobe ==
    /\ op = NoCall
    /\ \E cmdline \in CommandLines, tree \in ProbeTrees \cup CommandLineTrees :
        /\ cmdline = ValidCommandLine \/ tree \in CommandLineTrees
        /\ shared_tree' = TreeAfter(tree, "FFprobe", "", JNull)
        /\ op' = [name |-> "FFprobe", split_cmdline |-> cmdline, parsed_json |-> tree]
        /\ ret' = Outcome(FFprobeInit(cmdline, tree), FFprobe(Strings(cmdline), tree))
    /\ UNCHANGED probe_vars

\* _construct_ffstream_subclass(tree)
Dispatch ==
    /\ op = NoCall
    /\ \E tree \in StreamTrees \cup UnhashableKindTrees \cup NotMappings :
        /\ shared_tree' = TreeAfter(tree, "_construct_ffstream_subclass", "", JNull)
        /\ op' = [name |-> "_construct_ffstream_subclass", parsed_json |-> tree]
        /\ ret' = ConstructStream(tree)
    /\ UNCHANGED probe_vars

\* The values stored under 'bit_rate'.
BitRateValues ==
    {JStr("128000"), JNum("128000"), JStr("0"), JNum("7.9"), JStr("7.9"), JStr("abc"),
     JNull, JList(<<>>), JNum(HugeText), JStr(HugeText)}
BitRateTrees ==
    {JDict(<< <<"codec_type", JStr(kind)>>, <<"bit_rate", v>> >>) :
         kind \in {"audio", "video"}, v \in BitRateValues}

\* cls(tree) for ParsedJson, FFformat and FFchapter
NewWrapper ==
    /\ op = NoCall
    /\ \E cls \in {"ParsedJson", "FFformat", "FFchapter"},
          tree \in NotMappings \cup ChapterTrees \cup {FormatTree}
                   \cup KeyTrees("bit_rate", BitRateValues) :
        /\ shared_tree' = TreeAfter(tree, "new", "", JNull)
        /\ op' = [name |-> "new", cls |-> cls, parsed_json |-> tree]
        /\ ret' = CASE cls = "FFformat"  -> FFformatInit(tree)
                    [] cls = "FFchapter" -> FFchapterInit(tree)
                    [] OTHER -> IF ParsedJsonInit(tree).cls # ""
                                THEN Failed(ParsedJsonInit(tree))
                                ELSE Constructed(Obj("ParsedJson", tree, <<>>))
    /\ UNCHANGED probe_vars

\* cls(tree) for a class of wrappers of streams
NewStream ==
    /\ op = NoCall
    /\ \E cls \in StreamClasses,
          tree \in StreamTrees \cup UnhashableKindTrees \cup NotMappings \cup BitRateTrees :
        /\ shared_tree' = TreeAfter(tree, "new", "", JNull)
        /\ op' = [name |-> "new", cls |-> cls, parsed_json |-> tree]
        /\ ret' = New(cls, tree)
    /\ UNCHANGED probe_vars

\* ParsedJson(tree).get(key, default), [key], .get_as_float(key, default),
\* .get_as_int(key, default)
CallGetter ==
    /\ op = NoCall
    /\ \E getter \in Getters, key \in {"k"}, tree \in KeyTrees("k", GetterValues),
          default \in Defaults :
        /\ shared_tree' = TreeAfter(tree, getter, key, default)
        /\ op' = [name |-> getter, parsed_json |-> tree, key |-> key, default |-> default]
        /\ ret' = CASE getter = "get"          -> Get(tree, key, default)
                    [] getter = "__getitem__"  -> GetItem(tree, key)
                    [] getter = "get_as_float" -> GetAsFloat(tree, key, default)
                    [] getter = "get_as_int"   -> GetAsInt(tree, key, default)
    /\ UNCHANGED probe_vars

\* The sizes formatted, as the texts of JSON numbers; a size beyond the
\* machine integers is formatted in the base it is written in.
SizeTexts ==
    {"0", "999", "1000", "1023", "1024", "999949", "999950", "999999", "5243244", "1.5", "-7.9",
     "1000000000000000000000", "999000000000000000000000",
     "1000000000000000000000000", "1000000000000000000000000000",
     "1180591620717411303424", "1208925819614629174706176",
     "1237940039285380274899124224"}
SizeValues ==
    {JNum(t) : t \in SizeTexts} \cup {JStr(t) : t \in SizeTexts}
    \cup {JStr("nan"), JStr("inf"), JStr("abc"), JNull, JList(<<>>)}
Suffixes == {"", "B"}
InBase(v, use_base_10) ==
    v.t \in {"num", "str"} /\ Literal(v.s).v.exp > 0
        => Literal(v.s).v.b = (IF use_base_10 THEN 1000 ELSE 1024)

\* ParsedJson(tree).get_datasize_as_human('size', suffix, default,
\* use_base_10=use_base_10)
CallDatasize ==
    /\ op = NoCall
    /\ \E tree \in KeyTrees("size", SizeValues), suffix \in Suffixes,
          default \in Defaults, use_base_10 \in BOOLEAN :
        /\ DictHas(tree, "size") => InBase(DictGet(tree, "size", JNull), use_base_10)
        /\ shared_tree' = TreeAfter(tree, "get_datasize_as_human", "size", default)
        /\ op' = [name |-> "get_datasize_as_human", parsed_json |-> tree, key |-> "size",
                  suffix |-> suffix, default |-> default, use_base_10 |-> use_base_10]
        /\ ret' = GetDatasizeAsHuman(tree, "size", suffix, default, use_base_10)
    /\ UNCHANGED probe_vars

\* The durations formatted, in seconds.
DurationValues ==
    {JStr("0"), JStr("5"), JNum("5"), JStr("9.999"), JStr("30.96"), JStr("30.998"),
     JStr("59.5"), JStr("640"), JStr("3605.5"), JStr("3854.80"), JNum("3854.80"),
     JStr("360000.25"), JStr("-7.9"), JStr("nan"), JStr("inf"), JStr("abc"),
     JNull, JList(<<>>)}

\* ParsedJson(tree).get_duration_as_human(default)
CallDuration ==
    /\ op = NoCall
    /\ \E tree \in KeyTrees("duration", DurationValues), default \in Defaults :
        /\ shared_tree' = TreeAfter(tree, "get_duration_as_human", "duration", default)
        /\ op' = [name |-> "get_duration_as_human", parsed_json |-> tree, default |-> default]
        /\ ret' = GetDurationAsHuman(tree, default)
    /\ UNCHANGED probe_vars

\* The video subtrees get_frame_shape is called on.
ShapeValues == {JNum("640"), JStr("480"), JNum("7.9"), JStr("abc"), JNull}
ShapeTrees ==
    {KindTree(JStr("video"))}
    \cup {JDict(<< <<"codec_type", JStr("video")>>, <<"width", w>> >>) : w \in ShapeValues}
    \cup {JDict(<< <<"codec_type", JStr("video")>>, <<"width", w>>, <<"height", h>> >>) :
              w \in ShapeValues, h \in ShapeValues}

\* FFvideoStream(tree).get_frame_shape(default)
CallFrameShape ==
    /\ op = NoCall
    /\ \E tree \in ShapeTrees, default \in Defaults :
        /\ shared_tree' = TreeAfter(tree, "get_frame_shape", "width", default)
        /\ op' = [name |-> "get_frame_shape", parsed_json |-> tree, default |-> default]
        /\ ret' = GetFrameShape(New("FFvideoStream", tree).obj, default)
    /\ UNCHANGED probe_vars

NextLibrary ==
    \/ NewFFprobe
    \/ Dispatch
    \/ NewWrapper
    \/ NewStream
    \/ CallGetter
    \/ CallDatasize
    \/ CallDuration
    \/ CallFrameShape

\* The classes called on trees of any shape, each call from a fresh start.
SpecLibrary == Init /\ [][NextLibrary]_vars

(* ------------------------------------------------------------------ *)
(* Claims about the wrappers of streams                                 *)
(* ------------------------------------------------------------------ *)

Range(seq) == {seq[i] : i \in 1..Len(seq)}
Kinds == {"attachment", "audio", "subtitle", "video"}

\* The class whose __init__ accepts the kind.
VariantOf(kind) == CHOOSE cls \in DOMAIN StreamKind : StreamKind[cls] = kind

\* An FFprobe was constructed on a tree and the constructor raised nothing.
FFprobeConstructed == op.name = "FFprobe" /\ ret.raised.cls = ""

\* The entries of "streams" in the tree the FFprobe was constructed on.
StreamEntries == IterItems(DictGet(op.parsed_json, "streams", JList(<<>>)))

\* The declared kind of a subtree is one of the four known kinds.
DeclaresKnownKind(tree) ==
    /\ DictHas(tree, "codec_type")
    /\ DictGet(tree, "codec_type", JNull).t = "str"
    /\ DictGet(tree, "codec_type", JNull).s \in Kinds

\* C12: an FFprobe constructed on a tree with N stream entries has N
\* wrappers in streams, the i-th on the i-th entry; the four lists by
\* kind are pairwise disjoint; a stream of a known kind is in the list of
\* its kind only and is an instance of that kind's variant; a stream of a
\* missing or unknown kind is an FFstream in none of the four lists.
Thm_C12 ==
    FFprobeConstructed =>
        LET r == ret.obj IN
        /\ Len(r.streams) = Len(StreamEntries)
        /\ Cardinality(Range(r.streams)) = Len(StreamEntries)
        /\ \A i \in 1..Len(r.streams) :
               r.objects[r.streams[i]].parsed_json = StreamEntries[i]
        /\ \A k1 \in Kinds, k2 \in Kinds :
               k1 # k2 => Range(r[k1]) \cap Range(r[k2]) = {}
        /\ \A i \in 1..Len(r.streams) :
               LET tree == StreamEntries[i]
                   ref == r.streams[i]
               IN  IF DeclaresKnownKind(tree)
                   THEN LET kind == DictGet(tree, "codec_type", JNull).s IN
                        /\ \A k \in Kinds : ref \in Range(r[k]) <=> k = kind
                        /\ r.objects[ref].cls = VariantOf(kind)
                   ELSE /\ \A k \in Kinds : ref \notin Range(r[k])
                        /\ r.objects[ref].cls = "FFstream"

\* C12 witness: three streams, a video, an audio and one of no known kind.
Witness_C12 ==
    /\ FFprobeConstructed
    /\ Len(ret.obj.streams) = 3
    /\ Len(ret.obj.video) = 1 /\ Len(ret.obj.audio) = 1
    /\ \E i \in 1..3 : ~DeclaresKnownKind(StreamEntries[i])

\* The place of a reference in a list of references.
Pos(seq, x) == CHOOSE p \in 1..Len(seq) : seq[p] = x

\* C13: each element of the four lists by kind is a reference held by
\* streams, and the elements of a list stand in the order they have in
\* streams.
Thm_C13 ==
    FFprobeConstructed =>
        LET r == ret.obj IN
        \A k \in Kinds :
            /\ Range(r[k]) \subseteq Range(r.streams)
            /\ \A i \in 1..Len(r[k]), j \in 1..Len(r[k]) :
                   i < j => Pos(r.streams, r[k][i]) < Pos(r.streams, r[k][j])

\* C13 witness: two video streams on equal subtrees around an audio
\* stream, the video list holding the first and the third wrapper.
Witness_C13 ==
    /\ FFprobeConstructed
    /\ Len(ret.obj.streams) = 3
    /\ StreamEntries[1] = StreamEntries[3]
    /\ ret.obj.video = <<ret.obj.streams[1], ret.obj.streams[3]>>
    /\ ret.obj.audio = <<ret.obj.streams[2]>>

\* The dispatcher was called on a subtree that is a dict.
Dispatched == op.name = "_construct_ffstream_subclass" /\ IsMapping(op.parsed_json)

\* C14 (as claimed): the dispatcher returns the variant of a kind exactly
\* when codec_type is that kind, and the generic FFstream when codec_type
\* is absent or any other value; it raises nothing.
Claim_C14 ==
    Dispatched =>
        /\ ret.raised.cls = ""
        /\ ret.obj.cls = IF DeclaresKnownKind(op.parsed_json)
                         THEN VariantOf(DictGet(op.parsed_json, "codec_type", JNull).s)
                         ELSE "FFstream"

\* A variant was constructed directly on a subtree that is a dict.
VariantCalled ==
    op.name = "new" /\ op.cls \in DOMAIN StreamKind /\ IsMapping(op.parsed_json)

\* C15: a variant constructed on a subtree whose codec_type is absent or
\* is not the variant's kind raises FFprobeStreamSubclassError and leaves
\* no wrapper; on a subtree whose codec_type is its kind it does not
\* raise that.
Thm_C15 ==
    VariantCalled =>
        IF DictGet(op.parsed_json, "codec_type", JNull) = JStr(StreamKind[op.cls])
        THEN ret.raised.cls # "FFprobeStreamSubclassError"
        ELSE /\ ret.raised.cls = "FFprobeStreamSubclassError"
             /\ ret.raised.args[1] = op.cls
             /\ ret.obj = NoObj

\* C15 witness: FFaudioStream on a video subtree.
Witness_C15 ==
    /\ VariantCalled
    /\ op.cls = "FFaudioStream"
    /\ op.parsed_json = VideoTree
    /\ ret.raised.cls = "FFprobeStreamSubclassError"

IsNumber(v) == "ty" \in DOMAIN v
IsStr(v) == "t" \in DOMAIN v /\ v.t = "str"
IsTuple(v) == "t" \in DOMAIN v /\ v.t = "tuple"

\* Nothing to convert: the key is missing, or holds null, a list, an
\* object or a str that spells no number.
Unconvertible(tree, key) ==
    \/ ~DictHas(tree, key)
    \/ DictGet(tree, key, JNull).t \in {"null", "list", "dict"}
    \/ DictGet(tree, key, JNull).t = "str" /\ Literal(DictGet(tree, key, JNull).s).lit = "none"

\* C17: get_as_float, get_as_int, get_datasize_as_human,
\* get_duration_as_human and get_frame_shape raise nothing and return a
\* converted value or the caller's default, the default whenever there is
\* nothing to convert; get returns the default for a missing key;
\* indexing raises KeyError for a missing key.
Thm_C17 ==
    /\ op.name \in {"get_as_float", "get_as_int"} =>
           /\ ret.exc = ""
           /\ ret.val = op.default \/ IsNumber(ret.val)
           /\ Unconvertible(op.parsed_json, op.key) => ret.val = op.default
    /\ op.name = "get_datasize_as_human" =>
           /\ ret.exc = ""
           /\ ret.val = op.default \/ IsStr(ret.val)
           /\ Unconvertible(op.parsed_json, op.key) => ret.val = op.default
    /\ op.name = "get_duration_as_human" =>
           /\ ret.exc = ""
           /\ ret.val = op.default \/ IsStr(ret.val)
           /\ Unconvertible(op.parsed_json, "duration") => ret.val = op.default
    /\ op.name = "get_frame_shape" =>
           /\ ret.exc = ""
           /\ ret.val = op.default \/ IsTuple(ret.val)
           /\ (Unconvertible(op.parsed_json, "width")
                   \/ Unconvertible(op.parsed_json, "height")) => ret.val = op.default
    /\ (op.name = "get" /\ ~DictHas(op.parsed_json, op.key)) =>
           ret.exc = "" /\ ret.val = op.default
    /\ (op.name = "__getitem__" /\ ~DictHas(op.parsed_json, op.key)) =>
           ret.exc = "KeyError"

\* C17 witness: get_as_int of a missing key with a default given.
Witness_C17 ==
    /\ op.name = "get_as_int"
    /\ ~DictHas(op.parsed_json, op.key)
    /\ op.default = JStr("D")
    /\ ret = Value(JStr("D"))

\* get_datasize_as_human was called on a size that spells a number.
SizeFormatted ==
    /\ op.name = "get_datasize_as_human"
    /\ DictHas(op.parsed_json, "size")
    /\ ~Unconvertible(op.parsed_json, "size")
SizeGiven == Literal(DictGet(op.parsed_json, "size", JNull).s).v
DivisorGiven == IF op.use_base_10 THEN 1000 ELSE 1024

RECURSIVE Pow(_, _)
Pow(d, j) == IF j = 0 THEN 1 ELSE d * Pow(d, j - 1)

\* |x| < d^j, for x below 2^31 or written n * d^exp.
RECURSIVE BelowPow(_, _, _)
BelowPow(x, d, j) ==
    IF x.fl # "finite" THEN FALSE
    ELSE IF x.exp > 0 THEN j > x.exp /\ BelowPow([x EXCEPT !.exp = 0], d, j - x.exp)
    ELSE IF j >= 4 THEN TRUE
    ELSE Abs(x.num) \div x.den < Pow(d, j)

\* The smallest k in 0..7 with |x| / d^k < d, or 8.
Scale(x, d) ==
    IF \E k \in 0..7 : BelowPow(x, d, k + 1)
    THEN CHOOSE k \in 0..7 :
             BelowPow(x, d, k + 1) /\ \A j \in 0..(k - 1) : ~BelowPow(x, d, j + 1)
    ELSE 8

\* x / d^k
ScaledDown(x, d, k) ==
    IF x.fl # "finite" THEN x
    ELSE IF k <= x.exp THEN [x EXCEPT !.exp = @ - k]
    ELSE [x EXCEPT !.exp = 0, !.den = @ * Pow(d, k - x.exp)]

Prefixes == <<"", "k", "M", "G", "T", "P", "E", "Z", "Y">>

\* The text of x divided k times, under the k-th prefix.
SizeText(x, d, k, base2, suffix) ==
    FixedPoint(ScaledDown(x, d, k), 0, " ", 1) \o " " \o Prefixes[k + 1] \o
    (IF base2 /\ Prefixes[k + 1] # "" THEN "i" ELSE "") \o suffix

\* C18: a size v is divided by the divisor d exactly k times, k the
\* smallest of 0..7 with |v| / d^k < d, or 8, and printed under the k-th
\* of the prefixes none, k, M, G, T, P, E, Z, Y; 999 gives '999.0 B',
\* 1000 gives '1.0 kB', 5243244 gives '5.2 MB'.
Thm_C18 ==
    SizeFormatted =>
        /\ ret.val = JStr(SizeText(SizeGiven, DivisorGiven,
                                   Scale(SizeGiven, DivisorGiven),
                                   ~op.use_base_10, op.suffix))
        /\ (op.use_base_10 /\ op.suffix = "B") =>
               /\ SizeGiven = IntNum(999) => ret.val = JStr("999.0 B")
               /\ SizeGiven = IntNum(1000) => ret.val = JStr("1.0 kB")
               /\ SizeGiven = IntNum(5243244) => ret.val = JStr("5.2 MB")

\* C18 witness: 1000 * 1000^8 in base 10 is printed as 1000.0 under Y.
Witness_C18 ==
    /\ SizeFormatted
    /\ op.use_base_10 /\ op.suffix = "B"
    /\ SizeGiven = PyNum("int", 1000, 1, 1000, 8)
    /\ ret.val = JStr("1000.0 YB")

\* C19: in base 2 the text is the number, a blank, a prefix followed by
\* 'i' when the prefix is not empty, then the suffix; a size below 1024
\* has no prefix and no 'i'; in base 10 no 'i' follows the prefix.
Thm_C19 ==
    (SizeFormatted /\ SizeGiven.fl = "finite") =>
        /\ \E k \in 0..8 :
               /\ k <= SizeGiven.exp + 3
               /\ ret.val = JStr(FixedPoint(ScaledDown(SizeGiven, DivisorGiven, k), 0, " ", 1)
                                 \o " " \o Prefixes[k + 1]
                                 \o (IF op.use_base_10 \/ k = 0 THEN "" ELSE "i")
                                 \o op.suffix)
        /\ (~op.use_base_10 /\ BelowPow(SizeGiven, 1024, 1)) =>
               ret.val = JStr(FixedPoint(SizeGiven, 0, " ", 1) \o " " \o op.suffix)

\* C19 witness: 1024 in base 2 with suffix B is '1.0 kiB'.
Witness_C19 ==
    /\ SizeFormatted
    /\ ~op.use_base_10 /\ op.suffix = "B"
    /\ SizeGiven = IntNum(1024)
    /\ ret.val = JStr("1.0 kiB")

\* get_duration_as_human was called on a duration that spells a finite
\* number that is not negative.
DurationFormatted ==
    /\ op.name = "get_duration_as_human"
    /\ DictHas(op.parsed_json, "duration")
    /\ ~Unconvertible(op.parsed_json, "duration")
    /\ Literal(DictGet(op.parsed_json, "duration", JNull).s).v.fl = "finite"
    /\ Literal(DictGet(op.parsed_json, "duration", JNull).s).v.num >= 0
DurationGiven == Literal(DictGet(op.parsed_json, "duration", JNull).s).v

\* C20 (as claimed): a duration of s seconds is printed as
\* "%02d:%02d:%05.2f" of floor(s / 3600), floor(s / 60) mod 60 and the
\* remaining seconds, each field with at least two integer digits.
Claim_C20 ==
    DurationFormatted =>
        LET s == DurationGiven
            hours == s.num \div (s.den * 3600)
            minutes == (s.num \div (s.den * 60)) % 60
            rest == [s EXCEPT !.num = @ - (s.num \div (s.den * 60)) * 60 * s.den]
        IN  ret.val = JStr(ZeroPaddedInt(hours, 2) \o ":" \o ZeroPaddedInt(minutes, 2)
                           \o ":" \o FixedPoint(rest, 5, "0", 2))

(* ------------------------------------------------------------------ *)
(* Claims about the construction of the wrappers                        *)
(* ------------------------------------------------------------------ *)

\* A wrapper that derives bit_rate_kbps was constructed on a dict that
\* its __init__ accepts.
BitRateDerived ==
    /\ op.name = "new"
    /\ IsMapping(op.parsed_json)
    /\ \/ op.cls = "FFformat"
       \/ /\ op.cls \in {"FFaudioStream", "FFvideoStream"}
          /\ DictGet(op.parsed_json, "codec_type", JNull) = JStr(StreamKind[op.cls])

\* C21 (as claimed): FFformat, FFaudioStream and FFvideoStream are
\* constructed whatever 'bit_rate' holds; bit_rate_kbps is None exactly
\* when bit_rate_bps is None, which it is when 'bit_rate' is missing or
\* is no integer; otherwise bit_rate_kbps is bit_rate_bps / 1000.
Claim_C21 ==
    BitRateDerived =>
        /\ ret.raised.cls = ""
        /\ LET bps == Attr(ret.obj, "bit_rate_bps")
               kbps == Attr(ret.obj, "bit_rate_kbps")
           IN  /\ kbps = JNull <=> bps = JNull
               /\ Unconvertible(op.parsed_json, "bit_rate") => bps = JNull
               /\ bps # JNull =>
                      kbps = [bps EXCEPT !.ty = "float", !.den = @ * 1000]

\* A wrapper class was called on a value, for FFprobe with an argument
\* list that passes.
WrapperCalled ==
    \/ op.name = "new"
    \/ op.name = "FFprobe" /\ op.split_cmdline = ValidCommandLine

\* C22: a wrapper constructed on a value that is no dict raises
\* FFprobeInvalidArgumentError for 'parsed_json' and leaves no wrapper;
\* constructed on a dict, the empty one too, it is not rejected as
\* parsed_json.
Thm_C22 ==
    WrapperCalled =>
        IF IsMapping(op.parsed_json)
        THEN ret.raised.cls = "FFprobeInvalidArgumentError" =>
                 /\ ret.raised.args[1] = "parsed_json"
                 /\ ret.raised.args[3] # op.parsed_json
        ELSE /\ ret.raised.cls = "FFprobeInvalidArgumentError"
             /\ ret.raised.args[1] = "parsed_json"
             /\ ret.raised.args[3] = op.parsed_json
             /\ ret.obj = NoObj

\* C22 witness: FFchapter on a list.
Witness_C22 ==
    /\ op.name = "new" /\ op.cls = "FFchapter"
    /\ op.parsed_json = JList(<<>>)
    /\ ret.raised.cls = "FFprobeInvalidArgumentError"
    /\ ret.obj = NoObj

\* The object of the tree a reference names; a fresh object is in no tree.
Resolve(tree, ref) ==
    IF ref.index = 0 THEN DictGet(tree, ref.key, JNull)
    ELSE IterItems(DictGet(tree, ref.key, JList(<<>>)))[ref.index]

MaxThreadCalls == 3

\* The target each thread passes.
ThreadTarget(t) == IF t = 1 THEN "media.mp4" ELSE "http://h"

\* Everything but the threads and the module-level list.
single_call == <<pc, calls, files, lib, args, locals, child, returncode, ended, history>>

\* list[index] = x and list.append(x) act on the list the name refers to.
Store(t, items) ==
    IF thread_cmdline[t].shared
    THEN /\ _SPLIT_COMMAND_LINE' = items
         /\ UNCHANGED thread_cmdline
    ELSE /\ thread_cmdline' = [thread_cmdline EXCEPT ![t].items = items]
         /\ UNCHANGED _SPLIT_COMMAND_LINE

\* raise in a thread: its call ends.
ThreadRaise(t) == thread_pc' = [thread_pc EXCEPT ![t] = "done"]

\* Line 189: a thread calls probe, and the call copies the base list.
ThreadProbe ==
    /\ thread_calls < MaxThreadCalls
    /\ \E t \in Threads, override \in {None, Some(OverridePath)} :
        /\ thread_pc[t] \in {"idle", "done"}
        /\ thread_args' = [thread_args EXCEPT ![t] =
               [path_to_media |-> ThreadTarget(t), ffprobe_cmd_override |-> override]]
        /\ thread_cmdline' = [thread_cmdline EXCEPT ![t] = CopyOfList(_SPLIT_COMMAND_LINE)]
        /\ thread_spawned' = [thread_spawned EXCEPT ![t] = <<>>]
        /\ thread_recorded' = [thread_recorded EXCEPT ![t] = <<>>]
        /\ thread_pc' = [thread_pc EXCEPT ![t] = "override"]
    /\ thread_calls' = thread_calls + 1
    /\ UNCHANGED <<_SPLIT_COMMAND_LINE, single_call>>

\* Lines 192-197 in a thread.
ThreadCheckOverride ==
    /\ \E t \in Threads :
        LET override == thread_args[t].ffprobe_cmd_override IN
        /\ thread_pc[t] = "override"
        /\ IF override # None /\ ~IsFile(override[1])
           THEN /\ ThreadRaise(t)
                /\ UNCHANGED <<thread_cmdline, _SPLIT_COMMAND_LINE>>
           ELSE /\ IF override # None
                   THEN Store(t, [Deref(thread_cmdline[t]) EXCEPT ![1] = override[1]])
                   ELSE UNCHANGED <<thread_cmdline, _SPLIT_COMMAND_LINE>>
                /\ thread_pc' = [thread_pc EXCEPT ![t] = "media"]
    /\ UNCHANGED <<thread_args, thread_spawned, thread_recorded, thread_calls, single_call>>

\* Lines 230-246 in a thread, verify_local_mediafile left at True.
ThreadCheckMediaFile ==
    /\ \E t \in Threads :
        LET target == thread_args[t].path_to_media IN
        /\ thread_pc[t] = "media"
        /\ IF ~UriSchemeMatches(target) /\ ~IsFile(target)
           THEN ThreadRaise(t)
           ELSE thread_pc' = [thread_pc EXCEPT ![t] = "append"]
    /\ UNCHANGED <<thread_args, thread_cmdline, thread_spawned, thread_recorded,
                   thread_calls, _SPLIT_COMMAND_LINE, single_call>>

\* Line 265 in a thread.
ThreadAppendPath ==
    /\ \E t \in Threads :
        /\ thread_pc[t] = "append"
        /\ Store(t, Append(Deref(thread_cmdline[t]), thread_args[t].path_to_media))
        /\ thread_pc' = [thread_pc EXCEPT ![t] = "popen"]
    /\ UNCHANGED <<thread_args, thread_spawned, thread_recorded, thread_calls, single_call>>

\* Lines 267-271 in a thread: Popen is given the list as it is now.
ThreadPopen ==
    /\ \E t \in Threads :
        /\ thread_pc[t] = "popen"
        /\ thread_spawned' = [thread_spawned EXCEPT ![t] = Deref(thread_cmdline[t])]
        /\ thread_pc' = [thread_pc EXCEPT ![t] = "communicate"]
    /\ UNCHANGED <<thread_args, thread_cmdline, thread_recorded, thread_calls,
                   _SPLIT_COMMAND_LINE, single_call>>

\* Lines 362-366 in a thread: the list as it is now goes into the
\* FFprobeSubprocessError or into the FFprobe the call ends with.
ThreadEnds ==
    /\ \E t \in Threads :
        /\ thread_pc[t] = "communicate"
        /\ thread_recorded' = [thread_recorded EXCEPT ![t] = Deref(thread_cmdline[t])]
        /\ thread_pc' = [thread_pc EXCEPT ![t] = "done"]
    /\ UNCHANGED <<thread_args, thread_cmdline, thread_spawned, thread_calls,
                   _SPLIT_COMMAND_LINE, single_call>>

NextThreads ==
    \/ ThreadProbe
    \/ ThreadCheckOverride
    \/ ThreadCheckMediaFile
    \/ ThreadAppendPath
    \/ ThreadPopen
    \/ ThreadEnds

SpecThreads == Init /\ [][NextThreads]_vars

(* ------------------------------------------------------------------ *)
(* Claims about the argument list                                      *)
(* ------------------------------------------------------------------ *)

\* The argument list of a call: the base list with the override, if one
\* is given, in place of its first element, and the target after it.
OwnCommandLine(override, target) ==
    <<IF override = None THEN BaseCommandLine[1] ELSE override[1]>>
        \o Tail(BaseCommandLine) \o <<target>>

\* C24: however the steps of two probe calls interleave, the argument
\* list a call gives to Popen and the one it ends with hold its own
\* executable and its own target only, and the module-level list keeps
\* the contents it had before any call.
Thm_C24 ==
    /\ _SPLIT_COMMAND_LINE = BaseCommandLine
    /\ \A t \in Threads :
           LET own == OwnCommandLine(thread_args[t].ffprobe_cmd_override,
                                     thread_args[t].path_to_media)
           IN  /\ thread_spawned[t] \in {<<>>, own}
               /\ thread_recorded[t] \in {<<>>, own}

\* C24 witness: two calls in progress at once, both past Popen, one with
\* the override and one without.
Witness_C24 ==
    /\ \A t \in Threads : thread_pc[t] = "communicate"
    /\ thread_spawned[1][1] = OverridePath
    /\ thread_spawned[2][1] = BaseCommandLine[1]
    /\ thread_spawned[1][Len(thread_spawned[1])] = "media.mp4"
    /\ thread_spawned[2][Len(thread_spawned[2])] = "http://h"

\* C25: the argument list a call spawns ffprobe with, and the one its
\* result holds as split_cmdline, is the base list with the override,
\* if one is given, in place of "ffprobe" and the target as its one last
\* element; the result's executed_cmd is the first element of that list
\* and its media_file_path is the target.
Thm_C25 ==
    LET own == OwnCommandLine(ffprobe_cmd_override, path_to_media) IN
    /\ spawns > 0 =>
           /\ split_cmdline = own
           /\ Len(split_cmdline) = Len(BaseCommandLine) + 1
    /\ outcome = "returned" =>
           /\ result[1].split_cmdline = own
           /\ result[1].executed_cmd = own[1]
           /\ result[1].media_file_path = path_to_media

\* C25 witness: a call with an override returned a result.
Witness_C25 ==
    /\ outcome = "returned"
    /\ ffprobe_cmd_override = Some(OverridePath)
    /\ result[1].executed_cmd = OverridePath
    /\ result[1].split_cmdline[9] = path_to_media

\* C26: before the spawn the override is checked first, then the
\* timeout, then the local file, and the first check that fails gives
\* the error: a missing override raises FFprobeOverrideFileError
\* whatever the timeout and the target are; with the override in order a
\* rejected timeout raises FFprobeInvalidArgumentError for
\* communicate_timeout whether the target exists or not; the file is
\* looked at only after both passed.
Thm_C26 ==
    /\ (Done /\ ~OverrideExists) => exc.cls = "FFprobeOverrideFileError"
    /\ (Done /\ OverrideExists /\ communicate_timeout \in RejectedTimeouts) =>
           RaisedTimeoutError
    /\ (Done /\ OverrideExists /\ communicate_timeout \notin RejectedTimeouts
             /\ MediaCheckFails) => exc.cls = "FFprobeMediaFileError"
    /\ (Called /\ isfile_checked) =>
           OverrideExists /\ communicate_timeout \notin RejectedTimeouts
    /\ (Called /\ pc \notin {"override", "done"}) => OverrideExists
    /\ (Called /\ pc \notin {"override", "timeout", "done"}) =>
           communicate_timeout \notin RejectedTimeouts

\* C26 witness: the override is missing, the timeout is one that is
\* rejected and the target is missing too, and the call has ended.
Witness_C26 ==
    /\ Done
    /\ ~OverrideExists
    /\ communicate_timeout \in RejectedTimeouts
    /\ MediaCheckFails
    /\ exc.cls = "FFprobeOverrideFileError"

(* ------------------------------------------------------------------ *)
(* Claims about the construction of the result                         *)
(* ------------------------------------------------------------------ *)

\* FFprobe was called with a split_cmdline that is a single str, has
\* fewer than two elements or holds an element that is no str.
MalformedCommandLine ==
    /\ op.name = "FFprobe"
    /\ \/ op.split_cmdline.t = "str"
       \/ /\ op.split_cmdline.t \in {"list", "tuple"}
          /\ \/ Len(op.split_cmdline.items) < 2
             \/ \E i \in 1..Len(op.split_cmdline.items) :
                    op.split_cmdline.items[i].t # "str"

\* C27: FFprobe called with a split_cmdline that is a single str, that
\* has fewer than two elements (the default [] too) or that holds a
\* non-str raises FFprobeInvalidArgumentError for 'split_cmdline' and
\* leaves no wrapper, also when parsed_json is no dict.
Thm_C27 ==
    MalformedCommandLine =>
        /\ ret.raised.cls = "FFprobeInvalidArgumentError"
        /\ ret.raised.args[1] = "split_cmdline"
        /\ ret.raised.args[3] = op.split_cmdline
        /\ ret.obj = NoObj

\* C27 witness: a list that holds a number, with a parsed_json that is
\* no dict.
Witness_C27 ==
    /\ MalformedCommandLine
    /\ op.split_cmdline = JList(<<JStr("ffprobe"), JNum("0")>>)
    /\ ~IsMapping(op.parsed_json)
    /\ ret.raised.args[2] = "Supplied split command-line contains non-strings"

\* The entries of "streams" of the tree are all dicts.
StreamEntriesAreDicts ==
    /\ IsMapping(op.parsed_json)
    /\ \A i \in 1..Len(StreamEntries) : IsMapping(StreamEntries[i])

\* C28: an FFprobe built on a tree whose entries of "streams" are dicts,
\* and the dispatcher called on a dict, never raise
\* FFprobeStreamSubclassError, whatever the entries hold as codec_type.
Thm_C28 ==
    /\ (op.name = "FFprobe" /\ StreamEntriesAreDicts) =>
           ret.raised.cls # "FFprobeStreamSubclassError"
    /\ (Dispatched /\ IsMapping(op.parsed_json)) =>
           ret.raised.cls # "FFprobeStreamSubclassError"

\* C28 witness: a result built on entries of a known kind, of an unknown
\* kind and with no codec_type.
Witness_C28 ==
    /\ FFprobeConstructed
    /\ StreamEntriesAreDicts
    /\ \E i \in 1..Len(StreamEntries) : DeclaresKnownKind(StreamEntries[i])
    /\ \E i \in 1..Len(StreamEntries) : ~DictHas(StreamEntries[i], "codec_type")
    /\ \E i \in 1..Len(StreamEntries) :
           /\ DictHas(StreamEntries[i], "codec_type")
           /\ ~DeclaresKnownKind(StreamEntries[i])
    /\ Len(ret.obj.objects) = 3

(* ------------------------------------------------------------------ *)
(* Claims about the rounding of a size                                 *)
(* ------------------------------------------------------------------ *)

\* |x| in tenths, rounded as "%.1f" rounds it.
PrintedTenths(x) == RoundHalfEven(Abs(x.num) * 10, x.den)

\* C29 (as claimed): a size printed under a prefix below Y is printed
\* as a number that, rounded to one decimal, is below the divisor; in
\* base 10 no size is printed as '1000.0' under such a prefix, 999999 is
\* not printed as '1000.0 k'.
Claim_C29 ==
    (SizeFormatted /\ SizeGiven.fl = "finite" /\ Scale(SizeGiven, DivisorGiven) < 8) =>
        LET k == Scale(SizeGiven, DivisorGiven) IN
        /\ ret.val = JStr(SizeText(SizeGiven, DivisorGiven, k, ~op.use_base_10, op.suffix))
        /\ PrintedTenths(ScaledDown(SizeGiven, DivisorGiven, k)) < DivisorGiven * 10
        /\ op.use_base_10 =>
               \A j \in 1..8 : ret.val # JStr("1000.0 " \o Prefixes[j] \o op.suffix)

(* ------------------------------------------------------------------ *)
(* Claims about termination                                            *)
(* ------------------------------------------------------------------ *)

\* The timeout of the call is a finite number above zero.
PositiveTimeout ==
    /\ IsIntOrFloat(communicate_timeout)
    /\ communicate_timeout.fl = "finite"
    /\ communicate_timeout.n > 0

\* C30: a probe call with a timeout that is a finite number above zero
\* ends, with a result or with an exception, whatever the child does:
\* when the time is up the child is killed, and the communicate without
\* a timeout that follows returns.
Thm_C30 == (Called /\ PositiveTimeout) ~> Done

\* C30 witness: the time was up on a child still running, the child was
\* killed and the call has ended.
Witness_C30 ==
    /\ Done
    /\ PositiveTimeout
    /\ timed_out
    /\ killed
    /\ Len(pipe_out) < Len(child_doc)

====
